---- MODULE Spec2Model ----
(***************************************************************************)
(* Model of the error-handling subsystem of rust_study                     *)
(* (src/src/error_handling/mod.rs): the MathError/AppError taxonomy, the   *)
(* From conversions, the domain operations divide and sqrt, the            *)
(* propagation chain complex_operation with its example wrapper, and the   *)
(* configuration loader Config::from_file with config_example.             *)
(*                                                                         *)
(* Text is a sequence of one-character strings, so that lines, split,      *)
(* trim and the three parsers are computed character by character as the   *)
(* standard library computes them.  An f64 is modelled bit for bit: its   *)
(* class (nan, inf, fin), its sign bit and, when finite, its significand   *)
(* and exponent; parsing, division and the square root round to the        *)
(* nearest f64, ties to even, as IEEE 754 has it.  Threads share the       *)
(* storage and interleave at its calls: open, metadata, read, write,       *)
(* remove.                                                                 *)
(***************************************************************************)
EXTENDS Integers, Sequences, FiniteSets, TLC

(***************************************************************************)
(* Text helpers (std::str)                                                 *)
(***************************************************************************)

Digits == <<"0", "1", "2", "3", "4", "5", "6", "7", "8", "9">>

Upper == <<"A", "B", "C", "D", "E", "F", "G", "H", "I", "J", "K", "L", "M",
           "N", "O", "P", "Q", "R", "S", "T", "U", "V", "W", "X", "Y", "Z">>

Lower == <<"a", "b", "c", "d", "e", "f", "g", "h", "i", "j", "k", "l", "m",
           "n", "o", "p", "q", "r", "s", "t", "u", "v", "w", "x", "y", "z">>

\* char::is_ascii_digit
IsDigit(c) == \E i \in 1..10 : Digits[i] = c

\* char::to_digit(10) on a digit
DigitVal(c) == (CHOOSE i \in 1..10 : Digits[i] = c) - 1

\* u8::to_ascii_lowercase
ToLower(c) ==
    IF \E i \in 1..26 : Upper[i] = c
    THEN Lower[CHOOSE i \in 1..26 : Upper[i] = c]
    ELSE c

LowerText(s) == [i \in 1..Len(s) |-> ToLower(s[i])]

\* The characters of the Unicode property White_Space; a character outside
\* ASCII, and the vertical tab, is written as the token of its code point
WhiteSpace ==
    {"\t", "\n", "u000B", "\f", "\r", " ", "u0085", "u00A0", "u1680",
     "u2000", "u2001", "u2002", "u2003", "u2004", "u2005", "u2006", "u2007",
     "u2008", "u2009", "u200A", "u2028", "u2029", "u202F", "u205F", "u3000"}

\* char::is_whitespace
IsWhite(c) == c \in WhiteSpace

RECURSIVE trim_start(_)
trim_start(s) ==
    IF s /= <<>> /\ IsWhite(Head(s)) THEN trim_start(Tail(s)) ELSE s

RECURSIVE trim_end(_)
trim_end(s) ==
    IF s /= <<>> /\ IsWhite(s[Len(s)])
    THEN trim_end(SubSeq(s, 1, Len(s) - 1))
    ELSE s

\* str::trim
trim(s) == trim_end(trim_start(s))

\* str::split(sep): the parts between the separators, one more than there
\* are separators (the empty text gives one empty part)
RECURSIVE split_from(_, _, _)
split_from(s, sep, cur) ==
    IF s = <<>> THEN <<cur>>
    ELSE IF Head(s) = sep THEN <<cur>> \o split_from(Tail(s), sep, <<>>)
    ELSE split_from(Tail(s), sep, Append(cur, Head(s)))

split(s, sep) == split_from(s, sep, <<>>)

\* One line of str::lines: a "\r" that stood before the "\n" is dropped
strip_cr(l) ==
    IF l /= <<>> /\ l[Len(l)] = "\r" THEN SubSeq(l, 1, Len(l) - 1) ELSE l

\* str::lines: the text is cut after every "\n"; a line ended by "\n" loses
\* it and a "\r" before it; a last piece without "\n" is kept as it is; no
\* line is produced for the empty rest after the final "\n"
RECURSIVE lines_from(_, _)
lines_from(s, cur) ==
    IF s = <<>> THEN (IF cur = <<>> THEN <<>> ELSE <<cur>>)
    ELSE IF Head(s) = "\n" THEN <<strip_cr(cur)>> \o lines_from(Tail(s), <<>>)
    ELSE lines_from(Tail(s), Append(cur, Head(s)))

\* Mutant: a last line that no "\n" ends is lost
RECURSIVE lines_ended_only(_, _)
lines_ended_only(s, cur) ==
    IF s = <<>> THEN <<>>
    ELSE IF Head(s) = "\n" THEN <<strip_cr(cur)>> \o lines_ended_only(Tail(s), <<>>)
    ELSE lines_ended_only(Tail(s), Append(cur, Head(s)))

lines_without_open_last(s) == lines_ended_only(s, <<>>)

lines(s) == lines_from(s, <<>>)

(***************************************************************************)
(* Result values                                                           *)
(***************************************************************************)

Ok(v) == [tag |-> "Ok", val |-> v]

Err(e) == [tag |-> "Err", err |-> e]

IsOk(r) == r.tag = "Ok"

IsErr(r) == r.tag = "Err"


(***************************************************************************)
(* Natural numbers of any size, for the 53-bit significands of f64 and     *)
(* the products and quotients they are rounded from: the digits in base    *)
(* 2^15, the lowest first, with no zero digit at the top (0 is <<>>)       *)
(***************************************************************************)

Pow2(k) == 2^k

Min2(i, j) == IF i <= j THEN i ELSE j

Limb == Pow2(15)

RECURSIVE BNat(_)
BNat(k) == IF k = 0 THEN <<>> ELSE <<k % Limb>> \o BNat(k \div Limb)

BDigit(x, i) == IF 1 <= i /\ i <= Len(x) THEN x[i] ELSE 0

\* Number of digits of x up to its highest one that is not zero
BTop(x) == Cardinality({i \in 1..Len(x) : \E j \in i..Len(x) : x[j] /= 0})

\* x without zero digits at the top
BTrim(x) == SubSeq(x, 1, BTop(x))

\* A carry comes into digit i of x + y: a lower digit makes one and every
\* digit between passes it on
BCarry(x, y, i) ==
    \E j \in 1..(i - 1) :
        /\ BDigit(x, j) + BDigit(y, j) >= Limb
        /\ \A k \in (j + 1)..(i - 1) : BDigit(x, k) + BDigit(y, k) = Limb - 1

BAdd(x, y) ==
    IF y = <<>> THEN x
    ELSE IF x = <<>> THEN y
    ELSE BTrim([i \in 1..((IF Len(x) >= Len(y) THEN Len(x) ELSE Len(y)) + 1) |->
              (BDigit(x, i) + BDigit(y, i) + (IF BCarry(x, y, i) THEN 1 ELSE 0)) % Limb])

\* Digit i of x - y borrows from the digit above
BBorrow(x, y, i) ==
    \E j \in 1..(i - 1) :
        /\ BDigit(x, j) < BDigit(y, j)
        /\ \A k \in (j + 1)..(i - 1) : BDigit(x, k) = BDigit(y, k)

\* x - y, for y <= x
BSub(x, y) ==
    IF y = <<>> THEN x
    ELSE BTrim([i \in 1..Len(x) |->
              (x[i] - BDigit(y, i) - (IF BBorrow(x, y, i) THEN 1 ELSE 0) + Limb) % Limb])

BLess(x, y) ==
    IF Len(x) /= Len(y) THEN Len(x) < Len(y)
    ELSE \E i \in 1..Len(x) :
            /\ x[i] < y[i]
            /\ \A k \in (i + 1)..Len(x) : x[k] = y[k]

BLeq(x, y) == x = y \/ BLess(x, y)

\* x * k, for k <= 2^15: the low halves of the digits' products and, one
\* digit up, their high halves
BMulSmall(x, k) ==
    IF k = 0 \/ x = <<>> THEN <<>>
    ELSE BAdd(BTrim([i \in 1..Len(x) |-> (x[i] * k) % Limb]),
              BTrim(<<0>> \o [i \in 1..Len(x) |-> (x[i] * k) \div Limb]))

\* row + rest * 2^15
BMulAdd(row, rest) == IF rest = <<>> THEN row ELSE BAdd(row, <<0>> \o rest)

\* x times the digits of y from the j-th on
RECURSIVE BMulFrom(_, _, _)
BMulFrom(x, y, j) ==
    IF j > Len(y) THEN <<>>
    ELSE BMulAdd(BMulSmall(x, y[j]), BMulFrom(x, y, j + 1))

BMul(x, y) == BMulFrom(x, y, 1)

\* x * 2^k
BShl(x, k) == BTrim([i \in 1..(k \div 15) |-> 0] \o BMulSmall(x, Pow2(k % 15)))

\* x \div 2^k
BShr(x, k) ==
    BTrim([i \in 1..(Len(x) - k \div 15) |->
              x[i + k \div 15] \div Pow2(k % 15)
                + (BDigit(x, i + k \div 15 + 1) % Pow2(k % 15)) * Pow2(15 - (k % 15))])

\* The bit of x that counts 2^i
BBit(x, i) == (BDigit(x, i \div 15 + 1) \div Pow2(i % 15)) % 2

\* Number of bits of k, for k below 2^31
IntLen(k) == Cardinality({i \in 0..30 : Pow2(i) <= k})

\* Number of bits of x
BLen(x) == IF x = <<>> THEN 0 ELSE 15 * (Len(x) - 1) + IntLen(x[Len(x)])

\* Number of zero bits k ends with, for 0 < k < 2^31
IntZeros(k) == Cardinality({i \in 1..30 : k % Pow2(i) = 0})

\* Number of zero digits x ends with
BLowZeros(x) == Cardinality({i \in 1..Len(x) : \A j \in 1..i : x[j] = 0})

\* Number of zero bits x ends with, for x /= 0
BZeros(x) == 15 * BLowZeros(x) + IntZeros(BDigit(x, BLowZeros(x) + 1))

BSquare(x) == BMul(x, x)

RECURSIVE BPow10(_)
BPow10(k) ==
    IF k = 0 THEN <<1>>
    ELSE IF k % 2 = 0 THEN BSquare(BPow10(k \div 2))
    ELSE BMulSmall(BPow10(k - 1), 10)

\* Long division digit by digit (Knuth's Algorithm D), for a divisor d
\* whose highest digit is at least 2^14.  r2 is the rest r < d of the
\* digits above, with the next digit of n brought down.
\* The guess of the next digit of the quotient from the two highest digits
\* of r2 and the highest of d: the digit, or up to 2 above it
BDivGuess(r2, d) ==
    IF Len(r2) < Len(d) THEN 0
    ELSE Min2((BDigit(r2, Len(d) + 1) * Limb + r2[Len(d)]) \div d[Len(d)],
              Limb - 1)

\* The digit: the guess g less the number of g and g - 1 that are too large
BDivDigitOf(r2, d, g) ==
    g - Cardinality({c \in 0..1 : c < g /\ BLess(r2, BMulSmall(d, g - c))})

\* r with the i-th digit of n brought down
BDivDown(n, i, r) == BTrim(<<n[i]>> \o r)

\* The i lowest digits of the quotient, the highest first: r is the rest
\* of the digits of n above the i-th, r2 is r with the i-th brought down
\* and j the digit of the quotient that gives
RECURSIVE BDivFrom(_, _, _, _)
BDivDigit(n, d, i, r2, j) ==
    <<j>> \o BDivFrom(n, d, i - 1, BSub(r2, BMulSmall(d, j)))

BDivFrom(n, d, i, r) ==
    IF i = 0 THEN <<>>
    ELSE BDivDigit(n, d, i, BDivDown(n, i, r),
                   BDivDigitOf(BDivDown(n, i, r), d, BDivGuess(BDivDown(n, i, r), d)))

\* The number of the digits q, given highest first
BDivEnd(q) == BTrim([k \in 1..Len(q) |-> q[Len(q) + 1 - k]])

BDivStart(n, d) ==
    IF Len(n) < Len(d) THEN <<>>
    ELSE BDivEnd(BDivFrom(n, d, Len(n) - Len(d) + 1,
                          SubSeq(n, Len(n) - Len(d) + 2, Len(n))))

\* Bits d is moved up by to bring its highest digit to 2^14 or more
BDivNorm(d) == 15 - IntLen(d[Len(d)])

\* n \div d, for d /= 0
BDiv(n, d) == BDivStart(BShl(n, BDivNorm(d)), BShl(d, BDivNorm(d)))

\* [q, r] with n = q * d + r and r < d, for q = n \div d
BDivRest(n, d, q) == [q |-> q, r |-> BSub(n, BMul(q, d))]

BDivMod(n, d) == BDivRest(n, d, BDiv(n, d))

\* Newton's iteration from above for the largest root with root^2 <= t,
\* for t below 2^30
RECURSIVE IntSqrtFrom(_, _)
IntSqrtFrom(t, x) ==
    IF (x + t \div x) \div 2 < x THEN IntSqrtFrom(t, (x + t \div x) \div 2) ELSE x

IntSqrt(t) == IntSqrtFrom(t, Limb)

\* Bits of n below its highest 29 or 30, an even number of them
BSqrtLow(n) == IF BLen(n) <= 30 THEN 0 ELSE 2 * ((BLen(n) - 29) \div 2)

\* A value above the root of n, from the root of its highest bits
BSqrtAbove(n) ==
    BShl(BNat(IntSqrt(BDigit(BShr(n, BSqrtLow(n)), 2) * Limb
                      + BDigit(BShr(n, BSqrtLow(n)), 1)) + 1),
         BSqrtLow(n) \div 2)

\* Newton's iteration from above for the largest root with root^2 <= n:
\* x is above the root or is it, q is n \div x, and the next value is the
\* mean of the two
RECURSIVE isqrt_iter(_, _)
isqrt_mean(n, x, q) ==
    IF BLeq(x, q) THEN x ELSE isqrt_iter(n, BShr(BAdd(x, q), 1))

isqrt_iter(n, x) == isqrt_mean(n, x, BDiv(n, x))

\* Largest root with root^2 <= n
isqrt(n) == IF n = <<>> THEN <<>> ELSE isqrt_iter(n, BSqrtAbove(n))

(***************************************************************************)
(* f64 (IEEE 754 binary64): NaN, an infinity, or the finite value          *)
(* (-1)^neg * m * 2^e with m below 2^53 and odd (m = 0, e = 0 for the      *)
(* zeros), a multiple of 2^-1074 and below 2^1024.  Every operation        *)
(* rounds its exact result to the nearest such value, ties to the even     *)
(* significand.                                                            *)
(***************************************************************************)

F64Nan == [cls |-> "nan", neg |-> FALSE, m |-> <<>>, e |-> 0]

F64Inf(neg) == [cls |-> "inf", neg |-> neg, m |-> <<>>, e |-> 0]

F64Zero(neg) == [cls |-> "fin", neg |-> neg, m |-> <<>>, e |-> 0]

\* The f64 whose value is m * 2^e, already rounded: a magnitude from
\* 2^1024 on is infinity
F64Norm(neg, m, e) ==
    IF m = <<>> THEN F64Zero(neg)
    ELSE IF BLen(m) + e > 1024 THEN F64Inf(neg)
    ELSE [cls |-> "fin", neg |-> neg, m |-> BShr(m, BZeros(m)), e |-> e + BZeros(m)]

\* Bits of q that do not fit: those beyond 53, and those below 2^-1074
F64Drop(q, e) ==
    IF BLen(q) - 53 >= -1074 - e
    THEN (IF BLen(q) > 53 THEN BLen(q) - 53 ELSE 0)
    ELSE -1074 - e

\* Round to nearest, ties to even: the bits dropped are more than half a
\* step, or half a step with the kept bits odd
F64RoundsUp(q, sticky, drop) ==
    /\ drop > 0
    /\ BBit(q, drop - 1) = 1
    /\ \/ sticky
       \/ BShl(BShr(q, drop - 1), drop - 1) /= q
       \/ BBit(q, drop) = 1

\* q * 2^e without the lowest drop bits of q, rounded
F64Dropped(neg, q, sticky, e, drop) ==
    F64Norm(neg,
            IF F64RoundsUp(q, sticky, drop) THEN BAdd(BShr(q, drop), <<1>>)
            ELSE BShr(q, drop),
            e + drop)

\* The f64 nearest to (q + f) * 2^e, where 0 <= f < 1 and sticky tells
\* f /= 0; with sticky, q has more than 53 bits
F64RoundBits(neg, q, sticky, e) ==
    IF q = <<>> THEN F64Zero(neg) ELSE F64Dropped(neg, q, sticky, e, F64Drop(q, e))

\* Bits the numerator n is moved up by before the division by d, to give
\* a quotient of 55 or 56 bits (down, where negative)
F64Scale(n, d) == BLen(d) - BLen(n) + 55

\* The f64 nearest to (qr.q + qr.r / d) * 2^e
F64Quotient(neg, qr, e) == F64RoundBits(neg, qr.q, qr.r /= <<>>, e)

\* The f64 nearest to (n / d) * 2^x
F64Round(neg, n, d, x) ==
    IF n = <<>> THEN F64Zero(neg)
    ELSE F64Quotient(neg,
                     IF F64Scale(n, d) >= 0
                     THEN BDivMod(BShl(n, F64Scale(n, d)), d)
                     ELSE BDivMod(n, BShl(d, -F64Scale(n, d))),
                     x - F64Scale(n, d))

\* The f64 nearest to (-1)^neg * n / d
F64Fin(neg, n, d) == F64Round(neg, BNat(n), BNat(d), 0)

\* k as f64
F64Int(k) == F64Fin(k < 0, IF k < 0 THEN -k ELSE k, 1)

\* x < 0.0 (false of NaN and of both zeros)
f64_lt_zero(x) ==
    \/ x.cls = "inf" /\ x.neg
    \/ x.cls = "fin" /\ x.neg /\ x.m /= <<>>

\* x == 0.0 (true of both zeros)
f64_eq_zero(x) == x.cls = "fin" /\ x.m = <<>>

\* x >= 0.0
f64_ge_zero(x) == x.cls /= "nan" /\ ~f64_lt_zero(x)

\* Bits m is moved up by before the root is taken, to give a root of 55
\* bits and an even exponent
F64RootScale(m, e) ==
    IF (e - (110 - BLen(m))) % 2 = 0 THEN 110 - BLen(m) ELSE 111 - BLen(m)

\* The f64 nearest to the root of n * 2^(2 * e), where r is isqrt(n)
F64Rooted(n, r, e) == F64RoundBits(FALSE, r, BSquare(r) /= n, e)

\* The f64 nearest to the root of n * 2^(2 * e)
F64RootOf(n, e) == F64Rooted(n, isqrt(n), e)

\* f64::sqrt: NaN for NaN and for x < 0, the zeros and +inf are fixed
\* points, and the f64 nearest to the root of any other value
f64_sqrt(x) ==
    IF x.cls = "nan" \/ f64_lt_zero(x) THEN F64Nan
    ELSE IF x.cls = "inf" \/ x.m = <<>> THEN x
    ELSE F64RootOf(BShl(x.m, F64RootScale(x.m, x.e)),
                   (x.e - F64RootScale(x.m, x.e)) \div 2)

\* a / b of IEEE 754: the f64 nearest to the quotient of the two f64
f64_div(a, b) ==
    IF a.cls = "nan" \/ b.cls = "nan" THEN F64Nan
    ELSE IF a.cls = "inf"
         THEN (IF b.cls = "inf" THEN F64Nan ELSE F64Inf(a.neg /= b.neg))
    ELSE IF b.cls = "inf" THEN F64Zero(a.neg /= b.neg)
    ELSE IF b.m = <<>> THEN (IF a.m = <<>> THEN F64Nan ELSE F64Inf(a.neg /= b.neg))
    ELSE F64Round(a.neg /= b.neg, a.m, b.m, a.e - b.e)

(***************************************************************************)
(* Parsers (core::str::FromStr)                                            *)
(***************************************************************************)

T_true == <<"t", "r", "u", "e">>

T_false == <<"f", "a", "l", "s", "e">>

T_nan == <<"n", "a", "n">>

T_inf == <<"i", "n", "f">>

T_infinity == <<"i", "n", "f", "i", "n", "i", "t", "y">>

\* <bool as FromStr>::from_str: exactly "true" or "false"
parse_bool(s) ==
    IF s = T_true THEN Ok(TRUE)
    ELSE IF s = T_false THEN Ok(FALSE)
    ELSE Err("ParseBoolError")

\* Largest value of the u16 that Config.port is
U16Max == 65535

\* The digit loop of u16::from_str_radix(_, 10): an invalid digit is
\* reported where it stands, an overflow where it happens
RECURSIVE u16_digits(_, _)
u16_digits(ds, acc) ==
    IF ds = <<>> THEN Ok(acc)
    ELSE IF ~IsDigit(Head(ds)) THEN Err("InvalidDigit")
    ELSE IF acc * 10 > U16Max THEN Err("PosOverflow")
    ELSE IF acc * 10 + DigitVal(Head(ds)) > U16Max THEN Err("PosOverflow")
    ELSE u16_digits(Tail(ds), acc * 10 + DigitVal(Head(ds)))

\* <u16 as FromStr>::from_str: an optional "+" and at least one digit; the
\* type is unsigned, so a "-" is an invalid digit
parse_u16(s) ==
    IF s = <<>> THEN Err("Empty")
    ELSE IF Len(s) = 1 /\ s[1] \in {"+", "-"} THEN Err("InvalidDigit")
    ELSE u16_digits(IF s[1] = "+" THEN Tail(s) ELSE s, 0)

\* Number of digits s starts with
RECURSIVE DigitPrefixLen(_)
DigitPrefixLen(s) ==
    IF s /= <<>> /\ IsDigit(Head(s)) THEN 1 + DigitPrefixLen(Tail(s)) ELSE 0

\* Number of "0" s starts with
RECURSIVE ZeroPrefixLen(_)
ZeroPrefixLen(s) ==
    IF s /= <<>> /\ Head(s) = "0" THEN 1 + ZeroPrefixLen(Tail(s)) ELSE 0

\* Value of a text of digits of any length
BDigitsPut(front, k) ==
    IF front = <<>> THEN BNat(k) ELSE BAdd(BMulSmall(front, 10), BNat(k))

RECURSIVE BDigitsValue(_)
BDigitsValue(ds) ==
    IF ds = <<>> THEN <<>>
    ELSE BDigitsPut(BDigitsValue(SubSeq(ds, 1, Len(ds) - 1)), DigitVal(ds[Len(ds)]))

Drop(s, k) == SubSeq(s, k + 1, Len(s))

\* The decimal number of dec2flt's grammar, sign already removed:
\*   Number ::= ( Digit+ | Digit+ '.' Digit* | Digit* '.' Digit+ ) Exp?
\*   Exp    ::= 'e' Sign? Digit+            (the 'e' in either case)
\* The exponent written by the digits ds, as dec2flt's parse_scientific
\* reads it: a digit enters the exponent while the exponent is below
\* 0x10000, and the digits after that are passed over
RECURSIVE ExpValue(_, _)
ExpValue(ds, exponent) ==
    IF ds = <<>> THEN exponent
    ELSE ExpValue(Tail(ds), IF exponent < 65536
                            THEN 10 * exponent + DigitVal(Head(ds))
                            ELSE exponent)

\* [ok, mant, exp10, sig]: the value is mant * 10^exp10, and mant has sig
\* digits from its first nonzero one
parse_number(s) ==
    LET intLen    == DigitPrefixLen(s)
        afterInt  == Drop(s, intLen)
        hasDot    == afterInt /= <<>> /\ Head(afterInt) = "."
        afterDot  == IF hasDot THEN Tail(afterInt) ELSE afterInt
        fracLen   == IF hasDot THEN DigitPrefixLen(afterDot) ELSE 0
        afterFrac == Drop(afterDot, fracLen)
        hasExp    == afterFrac /= <<>> /\ ToLower(Head(afterFrac)) = "e"
        e1        == IF hasExp THEN Tail(afterFrac) ELSE <<>>
        eSigned   == e1 /= <<>> /\ Head(e1) \in {"+", "-"}
        eNeg      == e1 /= <<>> /\ Head(e1) = "-"
        e2        == IF eSigned THEN Tail(e1) ELSE e1
        expOk     == e2 /= <<>> /\ DigitPrefixLen(e2) = Len(e2)
        expAbs    == IF hasExp /\ expOk THEN ExpValue(e2, 0) ELSE 0
        mant      == BDigitsValue(SubSeq(s, 1, intLen) \o SubSeq(afterDot, 1, fracLen))
        ok        == /\ intLen + fracLen > 0
                     /\ \/ afterFrac = <<>>
                        \/ hasExp /\ expOk
    IN  [ok |-> ok, mant |-> mant,
         exp10 |-> (IF eNeg THEN -expAbs ELSE expAbs) - fracLen,
         sig |-> intLen + fracLen
                   - ZeroPrefixLen(SubSeq(s, 1, intLen) \o SubSeq(afterDot, 1, fracLen))]

\* parse_inf_nan: "nan", "inf" or "infinity", in any case
parse_inf_nan(s, neg) ==
    LET low == LowerText(s)
    IN  IF low = T_nan THEN Ok(F64Nan)
        ELSE IF low = T_inf \/ low = T_infinity THEN Ok(F64Inf(neg))
        ELSE Err("Invalid")

\* The f64 nearest to the decimal mant * 10^exp10: from 10^309 on it is
\* infinity and below 10^-324 zero, whatever its digits
f64_of_decimal(neg, mant, exp10, sig) ==
    IF sig = 0 THEN F64Zero(neg)
    ELSE IF exp10 + sig > 309 THEN F64Inf(neg)
    ELSE IF exp10 + sig < -323 THEN F64Zero(neg)
    ELSE IF exp10 >= 0 THEN F64Round(neg, BMul(mant, BPow10(exp10)), <<1>>, 0)
    ELSE F64Round(neg, mant, BPow10(-exp10), 0)

\* <f64 as FromStr>::from_str (dec2flt)
parse_f64(s) ==
    IF s = <<>> THEN Err("Empty")
    ELSE LET neg  == s[1] = "-"
             rest == IF s[1] \in {"+", "-"} THEN Tail(s) ELSE s
             num  == parse_number(rest)
         IN  IF rest = <<>> THEN Err("Invalid")
             ELSE IF num.ok
                  THEN Ok(f64_of_decimal(neg, num.mant, num.exp10, num.sig))
             ELSE parse_inf_nan(rest, neg)

(***************************************************************************)
(* MathError, divide, sqrt                                                 *)
(***************************************************************************)

MathError == {"DivisionByZero", "NegativeSquareRoot", "Overflow"}

\* Mutant: the quotient is not taken
divide_returns_dividend(a, b) ==
    IF f64_eq_zero(b) THEN Err("DivisionByZero") ELSE Ok(a)

\* Mutant: the zero test is made on the dividend
divide_checks_dividend(a, b) ==
    IF f64_eq_zero(a) THEN Err("DivisionByZero") ELSE Ok(f64_div(a, b))

divide(a, b) ==
    IF f64_eq_zero(b) THEN Err("DivisionByZero") ELSE Ok(f64_div(a, b))

\* Mutant: zero is rejected with the negative numbers
sqrt_rejects_zero(x) ==
    IF f64_lt_zero(x) \/ f64_eq_zero(x)
    THEN Err("NegativeSquareRoot")
    ELSE Ok(f64_sqrt(x))

sqrt(x) ==
    IF f64_lt_zero(x) THEN Err("NegativeSquareRoot") ELSE Ok(f64_sqrt(x))

(***************************************************************************)
(* AppError and the From conversions                                       *)
(***************************************************************************)

AppErrorKinds == {"Io", "Parse", "ParseFloat", "Math"}

From_io_Error(error) == [kind |-> "Io", cause |-> error]

\* Mutant: the integer-parse failure lands in the float-parse category
From_ParseIntError_as_ParseFloat(error) == [kind |-> "ParseFloat", cause |-> error]

From_ParseIntError(error) == [kind |-> "Parse", cause |-> error]

\* Mutant: the float-parse failure lands in the integer-parse category
From_ParseFloatError_as_Parse(error) == [kind |-> "Parse", cause |-> error]

From_ParseFloatError(error) == [kind |-> "ParseFloat", cause |-> error]

From_MathError(error) == [kind |-> "Math", cause |-> error]

\* The failures of the four source types, by type
ForeignErrors ==
    [io_Error        |-> {"NotFound", "PermissionDenied", "InvalidData"},
     ParseIntError   |-> {"Empty", "InvalidDigit", "PosOverflow", "NegOverflow", "Zero"},
     ParseFloatError |-> {"Empty", "Invalid"},
     MathError       |-> MathError]

\* AppError::from(error): the impl the type of error selects
AppError_from(ty, error) ==
    CASE ty = "io_Error"        -> From_io_Error(error)
      [] ty = "ParseIntError"   -> From_ParseIntError(error)
      [] ty = "ParseFloatError" -> From_ParseFloatError(error)
      [] ty = "MathError"       -> From_MathError(error)

(***************************************************************************)
(* Storage: the files the subsystem reads, writes and removes              *)
(***************************************************************************)

Paths == {"number.txt", "config.txt", "username.txt", "hello.txt"}

Missing == [st |-> "missing", data |-> <<>>]

\* A file that exists and cannot be opened for reading
Denied == [st |-> "denied", data |-> <<>>]

\* A file whose bytes are not UTF-8
NotUtf8 == [st |-> "notutf8", data |-> <<>>]

File(data) == [st |-> "file", data |-> data]

\* std::fs::read_to_string
read_to_string(f, p) ==
    CASE f[p].st = "file"    -> Ok(f[p].data)
      [] f[p].st = "missing" -> Err("NotFound")
      [] f[p].st = "denied"  -> Err("PermissionDenied")
      [] f[p].st = "notutf8" -> Err("InvalidData")

\* File::open: a handle on the file at p, or the failure to open it
File_open(f, p) ==
    CASE f[p].st = "missing" -> Err("NotFound")
      [] f[p].st = "denied"  -> Err("PermissionDenied")
      [] OTHER               -> Ok(p)

\* Read::read_to_string on an open handle: the text, or the failure to read
\* it as UTF-8
File_read_to_string(f, h) ==
    IF f[h].st = "notutf8" THEN Err("InvalidData") ELSE Ok(f[h].data)

\* File::create: the file is there and empty, or the call fails
File_create(f, p, ok) == IF ok THEN [f EXCEPT ![p] = File(<<>>)] ELSE f

\* std::fs::write is File::create and then write_all: k = -1 when the file
\* cannot be created or opened, which leaves it as it was; otherwise the
\* file is there and holds the first k characters of the data, all of them
\* when the call succeeds and fewer when write_all fails
fs_write(f, p, data, k) ==
    IF k = -1 THEN f ELSE [f EXCEPT ![p] = File(SubSeq(data, 1, k))]

\* std::fs::remove_file: the file is gone, or the call fails
fs_remove_file(f, p, ok) == IF ok THEN [f EXCEPT ![p] = Missing] ELSE f

(***************************************************************************)
(* Inputs                                                                  *)
(***************************************************************************)

\* Most lines of a config.txt built from ConfigLines
MaxLines == 3

\* The outcomes of std::fs::write of the data: not opened (-1), or opened
\* and k characters written, all of them or as many as there was room for
\* when write_all failed
WriteOutcomes(data) == {-1} \cup (0..Len(data))

\* Contents of number.txt: "100", "-4", "0", "-0", "4", "2", "0.25",
\* "2.25", "1e2", "1E+2", "-1e-2", ".5", "5.", "+9", " 100\n", "4\r\n",
\* "nan", "NaN", "inf", "Infinity", "-inf", "", "abc", ".", "1e", "e5", "--
\* 4", "1 0", "+", "-", " ", "1e400", "-1e-400", "0e999", and "4" between a
\* no-break space and a form feed
NumberTexts ==
    { <<"1", "e", "4", "0", "0">>,
      <<"-", "1", "e", "-", "4", "0", "0">>,
      <<"0", "e", "9", "9", "9">>,
      <<"u00A0", "4", "\f">>,
      <<"1", "0", "0">>,
      <<"-", "4">>,
      <<"0">>,
      <<"-", "0">>,
      <<"4">>,
      <<"2">>,
      <<"0", ".", "2", "5">>,
      <<"2", ".", "2", "5">>,
      <<"1", "e", "2">>,
      <<"1", "E", "+", "2">>,
      <<"-", "1", "e", "-", "2">>,
      <<".", "5">>,
      <<"5", ".">>,
      <<"+", "9">>,
      <<" ", "1", "0", "0", "\n">>,
      <<"4", "\r", "\n">>,
      <<"n", "a", "n">>,
      <<"N", "a", "N">>,
      <<"i", "n", "f">>,
      <<"I", "n", "f", "i", "n", "i", "t", "y">>,
      <<"-", "i", "n", "f">>,
      <<>>,
      <<"a", "b", "c">>,
      <<".">>,
      <<"1", "e">>,
      <<"e", "5">>,
      <<"-", "-", "4">>,
      <<"1", " ", "0">>,
      <<"+">>,
      <<"-">>,
      <<" ">> }

\* Lines a config.txt is made of: "debug=true", "debug=false", "debug=yes",
\* "port=3000", "port=abc", "port=65536", "port=", "port=-1", "host=h1",
\* "garbage", "port=a=b", "PORT=1", "=v", " port = 80 ", ""
ConfigLines ==
    { <<"d", "e", "b", "u", "g", "=", "t", "r", "u", "e">>,
      <<"d", "e", "b", "u", "g", "=", "f", "a", "l", "s", "e">>,
      <<"d", "e", "b", "u", "g", "=", "y", "e", "s">>,
      <<"p", "o", "r", "t", "=", "3", "0", "0", "0">>,
      <<"p", "o", "r", "t", "=", "a", "b", "c">>,
      <<"p", "o", "r", "t", "=", "6", "5", "5", "3", "6">>,
      <<"p", "o", "r", "t", "=">>,
      <<"p", "o", "r", "t", "=", "-", "1">>,
      <<"h", "o", "s", "t", "=", "h", "1">>,
      <<"g", "a", "r", "b", "a", "g", "e">>,
      <<"p", "o", "r", "t", "=", "a", "=", "b">>,
      <<"P", "O", "R", "T", "=", "1">>,
      <<"=", "v">>,
      <<" ", "p", "o", "r", "t", " ", "=", " ", "8", "0", " ">>,
      <<>> }

\* Whole contents of config.txt beside the combinations of ConfigLines:
\* "debug=true\nport=3000\nhost=0.0.0.0", "debug=true\ngarbage-
\* line\nport=3000", "port=notanumber", "debug=notabool\nport=3000",
\* "host=a=b", "port=65535", "port=+80", "port=0080",
\* "port=80\r\nhost=h1\r\n", "debug=TRUE\n", " debug = true ", "host=",
\* "host= a b ", "Debug=true", "port =abc", "ports=abc", "=", "==",
\* "\n\nport=1\n", "debug=true\ndebug=\nhost=h1", and "port=80" with
\* U+3000 before the key, U+00A0 after it, U+000C before the value and
\* U+0085 after it
ConfigExtraTexts ==
    { <<"u3000", "p", "o", "r", "t", "u00A0", "=", "\f", "8", "0", "u0085">>,
      <<"d", "e", "b", "u", "g", "=", "t", "r", "u", "e", "\n", "p", "o", "r", "t", "=", "3", "0", "0", "0", "\n", "h", "o", "s", "t", "=", "0", ".", "0", ".", "0", ".", "0">>,
      <<"d", "e", "b", "u", "g", "=", "t", "r", "u", "e", "\n", "g", "a", "r", "b", "a", "g", "e", "-", "l", "i", "n", "e", "\n", "p", "o", "r", "t", "=", "3", "0", "0", "0">>,
      <<"p", "o", "r", "t", "=", "n", "o", "t", "a", "n", "u", "m", "b", "e", "r">>,
      <<"d", "e", "b", "u", "g", "=", "n", "o", "t", "a", "b", "o", "o", "l", "\n", "p", "o", "r", "t", "=", "3", "0", "0", "0">>,
      <<"h", "o", "s", "t", "=", "a", "=", "b">>,
      <<"p", "o", "r", "t", "=", "6", "5", "5", "3", "5">>,
      <<"p", "o", "r", "t", "=", "+", "8", "0">>,
      <<"p", "o", "r", "t", "=", "0", "0", "8", "0">>,
      <<"p", "o", "r", "t", "=", "8", "0", "\r", "\n", "h", "o", "s", "t", "=", "h", "1", "\r", "\n">>,
      <<"d", "e", "b", "u", "g", "=", "T", "R", "U", "E", "\n">>,
      <<" ", "d", "e", "b", "u", "g", " ", "=", " ", "t", "r", "u", "e", " ">>,
      <<"h", "o", "s", "t", "=">>,
      <<"h", "o", "s", "t", "=", " ", "a", " ", "b", " ">>,
      <<"D", "e", "b", "u", "g", "=", "t", "r", "u", "e">>,
      <<"p", "o", "r", "t", " ", "=", "a", "b", "c">>,
      <<"p", "o", "r", "t", "s", "=", "a", "b", "c">>,
      <<"=">>,
      <<"=", "=">>,
      <<"\n", "\n", "p", "o", "r", "t", "=", "1", "\n">>,
      <<"d", "e", "b", "u", "g", "=", "t", "r", "u", "e", "\n", "d", "e", "b", "u", "g", "=", "\n", "h", "o", "s", "t", "=", "h", "1">> }

T_debug == <<"d", "e", "b", "u", "g">>

T_port == <<"p", "o", "r", "t">>

T_host == <<"h", "o", "s", "t">>

T_localhost == <<"l", "o", "c", "a", "l", "h", "o", "s", "t">>

T_100 == <<"1", "0", "0">>

T_example_config == <<"d", "e", "b", "u", "g", "=", "t", "r", "u", "e", "\n", "p", "o", "r", "t", "=", "3", "0", "0", "0", "\n", "h", "o", "s", "t", "=", "0", ".", "0", ".", "0", ".", "0">>


\* The texts of at most k lines of ConfigLines, "\n" between the lines
RECURSIVE TextsOf(_)
TextsOf(k) ==
    IF k = 0 THEN {<<>>}
    ELSE LET shorter == TextsOf(k - 1)
         IN  shorter \cup ConfigLines
                 \cup { l \o <<"\n">> \o t : l \in ConfigLines, t \in shorter }

ConfigTexts == TextsOf(MaxLines) \cup ConfigExtraTexts

NumberFiles == {Missing, Denied, NotUtf8} \cup { File(t) : t \in NumberTexts }

ConfigFiles == {Missing, Denied, NotUtf8} \cup { File(t) : t \in ConfigTexts }

(***************************************************************************)
(* State                                                                   *)
(***************************************************************************)

VARIABLES
    fs,         \* Storage: path -> file
    out,        \* Presentation: what println! has written, in order
    op_pc,      \* complex_operation: the step it is at
    contents,   \* complex_operation: let contents
    number,     \* complex_operation: let number
    root,       \* complex_operation: let root
    result,     \* what complex_operation returned
    ran,        \* the steps of complex_operation executed so far, in order
    mx_pc,      \* multiple_error_types_example: the statement it is at
    cf_pc,      \* Config::from_file: the step it is at
    text,       \* Config::from_file: let contents
    rest,       \* Config::from_file: the lines the for loop has not reached
    debug,      \* Config::from_file: let mut debug
    port,       \* Config::from_file: let mut port
    host,       \* Config::from_file: let mut host
    loaded,     \* what Config::from_file returned
    processed,  \* the lines the for loop has taken so far, in order
    ex_pc,      \* config_example: the statement it is at
    config,     \* config_example: let config
    call_fn,    \* a direct call: the function called ("none" without one)
    call_args,  \* a direct call: the arguments
    call_ret,   \* a direct call: what the calls made so far returned
    th,         \* concurrent invocations: each thread's frame
    unlinked,   \* concurrent invocations: the removed files still open
    fs0,        \* Storage before the first step
    rb_pc,      \* result_basics: the statement it is at
    touched,    \* another process has changed hello.txt since the call
    overflow_checks, \* the build: arithmetic overflow panics (debug) or wraps
    game,       \* game_example: let mut game
    game_log,   \* the calls made on game, each with the state it found
    game_panic, \* a call on game has panicked
    cache_values, \* Cache: self.values
    cache_log,  \* the calls of Cache::value, each with what it found
    cache_panic, \* a call of Cache::value has panicked
    ra_pc       \* run_all_error_handling: the statement it is at

chainVars == <<op_pc, contents, number, root, result, ran, mx_pc>>

loaderVars == <<cf_pc, text, rest, debug, port, host, loaded, processed>>

exampleVars == <<ex_pc, config>>

callVars == <<call_fn, call_args, call_ret>>

threadVars == <<th, unlinked, fs0>>

basicsVars == <<rb_pc, touched>>

buildVars == <<overflow_checks>>

gameVars == <<game, game_log, game_panic>>

cacheVars == <<cache_values, cache_log, cache_panic>>

runVars == <<ra_pc>>

\* The variables of result_basics, Game, Cache and run_all_error_handling
elsewhereVars == <<basicsVars, runVars, buildVars, gameVars, cacheVars>>

vars == <<fs, out, chainVars, loaderVars, exampleVars, callVars, threadVars, elsewhereVars>>

NoF64 == [cls |-> "unset", neg |-> FALSE, m |-> <<>>, e |-> 0]

NoResult == [tag |-> "None"]

NoConfig == [debug |-> FALSE, port |-> 0, host |-> <<>>]

InitLocals ==
    /\ out = <<>>
    /\ op_pc = "idle" /\ contents = <<>> /\ number = NoF64 /\ root = NoF64
    /\ result = NoResult /\ ran = <<>> /\ mx_pc = "idle"
    /\ cf_pc = "idle" /\ text = <<>> /\ rest = <<>>
    /\ debug = FALSE /\ port = 0 /\ host = <<>>
    /\ loaded = NoResult /\ processed = <<>>
    /\ ex_pc = "idle" /\ config = NoConfig

\* No function is called directly
InitNoCall == call_fn = "none" /\ call_args = <<>> /\ call_ret = <<>>

\* No threads: the one caller is the program's main thread
InitNoThreads == th = <<>> /\ unlinked = <<>> /\ fs0 = <<>>

NoGame == [state |-> [tag |-> "None"], player_name |-> <<>>]

InitNoBasics == rb_pc = "idle" /\ touched = FALSE

InitNoGame == game = NoGame /\ game_log = <<>> /\ game_panic = FALSE

InitNoCache == cache_values = {} /\ cache_log = <<>> /\ cache_panic = FALSE

InitNoRun == ra_pc = "none"

\* result_basics, Game, Cache and run_all_error_handling are not running
InitElsewhere ==
    /\ InitNoBasics
    /\ InitNoRun
    /\ overflow_checks = FALSE
    /\ InitNoGame
    /\ InitNoCache

\* The chain's runs: number.txt in any state before the example starts
InitChain ==
    /\ \E f \in NumberFiles : fs = [p \in Paths |-> IF p = "number.txt" THEN f ELSE Missing]
    /\ InitLocals
    /\ InitNoCall
    /\ InitNoThreads
    /\ InitElsewhere

\* The loader's runs: config.txt in any state before the example starts
InitConfig ==
    /\ \E f \in ConfigFiles : fs = [p \in Paths |-> IF p = "config.txt" THEN f ELSE Missing]
    /\ InitLocals
    /\ InitNoCall
    /\ InitNoThreads
    /\ InitElsewhere

(***************************************************************************)
(* Display                                                                 *)
(***************************************************************************)

\* The texts of the Display impls.  A character outside ASCII is written as
\* the token of its code point ("u30A8"), one token per character.
P_Io ==
    <<"I", "/", "O", "u30A8", "u30E9", "u30FC", ":", " ">>

P_Parse ==
    <<"u89E3", "u6790", "u30A8", "u30E9", "u30FC", ":", " ">>

P_ParseFloat ==
    <<"u6D6E", "u52D5", "u5C0F", "u6570", "u70B9", "u89E3", "u6790",
      "u30A8", "u30E9", "u30FC", ":", " ">>

P_Math ==
    <<"u6570", "u5B66", "u30A8", "u30E9", "u30FC", ":", " ">>

D_DivisionByZero ==
    <<"u30BC", "u30ED", "u306B", "u3088", "u308B", "u9664", "u7B97">>

D_NegativeSquareRoot ==
    <<"u8CA0", "u306E", "u6570", "u306E", "u5E73", "u65B9", "u6839">>

D_Overflow ==
    <<"u30AA", "u30FC", "u30D0", "u30FC", "u30D5", "u30ED", "u30FC">>

D_NotFound ==
    <<"N", "o", " ", "s", "u", "c", "h", " ", "f", "i", "l", "e", " ", "o",
      "r", " ", "d", "i", "r", "e", "c", "t", "o", "r", "y", " ", "(", "o",
      "s", " ", "e", "r", "r", "o", "r", " ", "2", ")">>

D_PermissionDenied ==
    <<"P", "e", "r", "m", "i", "s", "s", "i", "o", "n", " ", "d", "e", "n",
      "i", "e", "d", " ", "(", "o", "s", " ", "e", "r", "r", "o", "r", " ",
      "1", "3", ")">>

D_InvalidData ==
    <<"s", "t", "r", "e", "a", "m", " ", "d", "i", "d", " ", "n", "o", "t",
      " ", "c", "o", "n", "t", "a", "i", "n", " ", "v", "a", "l", "i", "d",
      " ", "U", "T", "F", "-", "8">>

D_IntEmpty ==
    <<"c", "a", "n", "n", "o", "t", " ", "p", "a", "r", "s", "e", " ", "i",
      "n", "t", "e", "g", "e", "r", " ", "f", "r", "o", "m", " ", "e", "m",
      "p", "t", "y", " ", "s", "t", "r", "i", "n", "g">>

D_InvalidDigit ==
    <<"i", "n", "v", "a", "l", "i", "d", " ", "d", "i", "g", "i", "t", " ",
      "f", "o", "u", "n", "d", " ", "i", "n", " ", "s", "t", "r", "i", "n",
      "g">>

D_PosOverflow ==
    <<"n", "u", "m", "b", "e", "r", " ", "t", "o", "o", " ", "l", "a", "r",
      "g", "e", " ", "t", "o", " ", "f", "i", "t", " ", "i", "n", " ", "t",
      "a", "r", "g", "e", "t", " ", "t", "y", "p", "e">>

D_NegOverflow ==
    <<"n", "u", "m", "b", "e", "r", " ", "t", "o", "o", " ", "s", "m", "a",
      "l", "l", " ", "t", "o", " ", "f", "i", "t", " ", "i", "n", " ", "t",
      "a", "r", "g", "e", "t", " ", "t", "y", "p", "e">>

D_Zero ==
    <<"n", "u", "m", "b", "e", "r", " ", "w", "o", "u", "l", "d", " ", "b",
      "e", " ", "z", "e", "r", "o", " ", "f", "o", "r", " ", "n", "o", "n",
      "-", "z", "e", "r", "o", " ", "t", "y", "p", "e">>

D_FloatEmpty ==
    <<"c", "a", "n", "n", "o", "t", " ", "p", "a", "r", "s", "e", " ", "f",
      "l", "o", "a", "t", " ", "f", "r", "o", "m", " ", "e", "m", "p", "t",
      "y", " ", "s", "t", "r", "i", "n", "g">>

D_FloatInvalid ==
    <<"i", "n", "v", "a", "l", "i", "d", " ", "f", "l", "o", "a", "t", " ",
      "l", "i", "t", "e", "r", "a", "l">>

\* impl fmt::Display for MathError
Display_MathError(m) ==
    CASE m = "DivisionByZero"     -> D_DivisionByZero
      [] m = "NegativeSquareRoot" -> D_NegativeSquareRoot
      [] m = "Overflow"           -> D_Overflow

\* Display of std::io::Error, by its kind
Display_io_Error(c) ==
    CASE c = "NotFound"         -> D_NotFound
      [] c = "PermissionDenied" -> D_PermissionDenied
      [] c = "InvalidData"      -> D_InvalidData

\* Display of std::num::ParseIntError, by its kind
Display_ParseIntError(c) ==
    CASE c = "Empty"        -> D_IntEmpty
      [] c = "InvalidDigit" -> D_InvalidDigit
      [] c = "PosOverflow"  -> D_PosOverflow
      [] c = "NegOverflow"  -> D_NegOverflow
      [] c = "Zero"         -> D_Zero

\* Display of std::num::ParseFloatError, by its kind
Display_ParseFloatError(c) ==
    CASE c = "Empty"   -> D_FloatEmpty
      [] c = "Invalid" -> D_FloatInvalid

\* The {} of the embedded cause
Display_cause(e) ==
    CASE e.kind = "Io"         -> Display_io_Error(e.cause)
      [] e.kind = "Parse"      -> Display_ParseIntError(e.cause)
      [] e.kind = "ParseFloat" -> Display_ParseFloatError(e.cause)
      [] e.kind = "Math"       -> Display_MathError(e.cause)

\* Mutant: both parse categories are written with the one prefix
Display_AppError_one_parse_prefix(e) ==
    (CASE e.kind = "Io"         -> P_Io
       [] e.kind = "Parse"      -> P_Parse
       [] e.kind = "ParseFloat" -> P_Parse
       [] e.kind = "Math"       -> P_Math) \o Display_cause(e)

\* impl fmt::Display for AppError: write!(f, "<prefix>{}", e)
Display_AppError(e) ==
    (CASE e.kind = "Io"         -> P_Io
       [] e.kind = "Parse"      -> P_Parse
       [] e.kind = "ParseFloat" -> P_ParseFloat
       [] e.kind = "Math"       -> P_Math) \o Display_cause(e)

(***************************************************************************)
(* complex_operation and multiple_error_types_example                      *)
(***************************************************************************)

\* The constant complex_operation divides by
Divisor == 10

ChainSteps == <<"read", "parse", "sqrt", "divide">>

\* let contents = std::fs::read_to_string("number.txt")?;
complex_operation_read ==
    /\ op_pc = "read"
    /\ ran' = Append(ran, "read")
    /\ LET r == read_to_string(fs, "number.txt")
       IN  IF IsErr(r)
           THEN /\ result' = Err(From_io_Error(r.err))
                /\ op_pc' = "ret"
                /\ UNCHANGED contents
           ELSE /\ contents' = r.val
                /\ op_pc' = "parse"
                /\ UNCHANGED result
    /\ UNCHANGED <<fs, out, number, root, mx_pc, loaderVars, exampleVars, callVars, threadVars, elsewhereVars>>

\* Mutant: a text that is no number is reported as a MathError made on the
\* spot
complex_operation_parse_makes_math ==
    /\ op_pc = "parse"
    /\ ran' = Append(ran, "parse")
    /\ LET r == parse_f64(trim(contents))
       IN  IF IsErr(r)
           THEN /\ result' = Err(From_MathError("Overflow"))
                /\ op_pc' = "ret"
                /\ UNCHANGED number
           ELSE /\ number' = r.val
                /\ op_pc' = "sqrt"
                /\ UNCHANGED result
    /\ UNCHANGED <<fs, out, contents, root, mx_pc, loaderVars, exampleVars, callVars, threadVars, elsewhereVars>>

\* let number: f64 = contents.trim().parse()?;
complex_operation_parse ==
    /\ op_pc = "parse"
    /\ ran' = Append(ran, "parse")
    /\ LET r == parse_f64(trim(contents))
       IN  IF IsErr(r)
           THEN /\ result' = Err(From_ParseFloatError(r.err))
                /\ op_pc' = "ret"
                /\ UNCHANGED number
           ELSE /\ number' = r.val
                /\ op_pc' = "sqrt"
                /\ UNCHANGED result
    /\ UNCHANGED <<fs, out, contents, root, mx_pc, loaderVars, exampleVars, callVars, threadVars, elsewhereVars>>

\* Mutant: the failure of sqrt is noted and the chain goes on to divide
complex_operation_sqrt_goes_on ==
    /\ op_pc = "sqrt"
    /\ ran' = Append(ran, "sqrt")
    /\ LET r == sqrt(number)
       IN  IF IsErr(r)
           THEN /\ result' = Err(From_MathError(r.err))
                /\ root' = F64Nan
           ELSE /\ root' = r.val
                /\ UNCHANGED result
    /\ op_pc' = "divide"
    /\ UNCHANGED <<fs, out, contents, number, mx_pc, loaderVars, exampleVars, callVars, threadVars, elsewhereVars>>

\* let root = sqrt(number)?;
complex_operation_sqrt ==
    /\ op_pc = "sqrt"
    /\ ran' = Append(ran, "sqrt")
    /\ LET r == sqrt(number)
       IN  IF IsErr(r)
           THEN /\ result' = Err(From_MathError(r.err))
                /\ op_pc' = "ret"
                /\ UNCHANGED root
           ELSE /\ root' = r.val
                /\ op_pc' = "divide"
                /\ UNCHANGED result
    /\ UNCHANGED <<fs, out, contents, number, mx_pc, loaderVars, exampleVars, callVars, threadVars, elsewhereVars>>

\* let result = divide(root, 10.0)?;  Ok(result)
complex_operation_divide ==
    /\ op_pc = "divide"
    /\ ran' = Append(ran, "divide")
    /\ LET r == divide(root, F64Int(Divisor))
       IN  /\ result' = IF IsErr(r) THEN Err(From_MathError(r.err)) ELSE Ok(r.val)
           /\ op_pc' = "ret"
    /\ UNCHANGED <<fs, out, contents, number, root, mx_pc, loaderVars, exampleVars, callVars, threadVars, elsewhereVars>>

\* let _ = std::fs::write("number.txt", "100");
multiple_error_types_example_write ==
    /\ mx_pc = "idle"
    /\ \E k \in WriteOutcomes(T_100) : fs' = fs_write(fs, "number.txt", T_100, k)
    /\ mx_pc' = "call"
    /\ UNCHANGED <<out, op_pc, contents, number, root, result, ran, loaderVars, exampleVars, callVars, threadVars, elsewhereVars>>

\* match complex_operation() {: the call
multiple_error_types_example_call ==
    /\ mx_pc = "call"
    /\ op_pc = "idle"
    /\ op_pc' = "read"
    /\ mx_pc' = "match"
    /\ UNCHANGED <<fs, out, contents, number, root, result, ran, loaderVars, exampleVars, callVars, threadVars, elsewhereVars>>

\* Mutant: the Err arm prints nothing
multiple_error_types_example_match_drops ==
    /\ mx_pc = "match"
    /\ op_pc = "ret"
    /\ out' = IF IsOk(result)
              THEN Append(out, [line |-> "complex_operation result", arg |-> result.val])
              ELSE out
    /\ mx_pc' = "remove"
    /\ UNCHANGED <<fs, op_pc, contents, number, root, result, ran, loaderVars, exampleVars, callVars, threadVars, elsewhereVars>>

\* Mutant: the Err arm prints and returns, leaving the cleanup out
multiple_error_types_example_match_returns ==
    /\ mx_pc = "match"
    /\ op_pc = "ret"
    /\ out' = Append(out, IF IsOk(result)
                          THEN [line |-> "complex_operation result", arg |-> result.val]
                          ELSE [line |-> "complex_operation error",
                                arg |-> Display_AppError(result.err)])
    /\ mx_pc' = IF IsOk(result) THEN "remove" ELSE "done"
    /\ UNCHANGED <<fs, op_pc, contents, number, root, result, ran, loaderVars, exampleVars, callVars, threadVars, elsewhereVars>>

\* The arms of the match: the value or the error is printed
multiple_error_types_example_match ==
    /\ mx_pc = "match"
    /\ op_pc = "ret"
    /\ out' = Append(out, IF IsOk(result)
                          THEN [line |-> "complex_operation result", arg |-> result.val]
                          ELSE [line |-> "complex_operation error",
                                arg |-> Display_AppError(result.err)])
    /\ mx_pc' = "remove"
    /\ UNCHANGED <<fs, op_pc, contents, number, root, result, ran, loaderVars, exampleVars, callVars, threadVars, elsewhereVars>>

\* let _ = std::fs::remove_file("number.txt");
multiple_error_types_example_remove ==
    /\ mx_pc = "remove"
    /\ \E ok \in BOOLEAN : fs' = fs_remove_file(fs, "number.txt", ok)
    /\ mx_pc' = "done"
    /\ UNCHANGED <<out, op_pc, contents, number, root, result, ran, loaderVars, exampleVars, callVars, threadVars, elsewhereVars>>

NextChain ==
    \/ multiple_error_types_example_write
    \/ multiple_error_types_example_call
    \/ complex_operation_read
    \/ complex_operation_parse
    \/ complex_operation_sqrt
    \/ complex_operation_divide
    \/ multiple_error_types_example_match
    \/ multiple_error_types_example_remove

SpecChain == InitChain /\ [][NextChain]_vars

(***************************************************************************)
(* Config::from_file, Config::with_defaults and config_example             *)
(***************************************************************************)

\* Result::unwrap_or
unwrap_or(r, default) == IF IsOk(r) THEN r.val ELSE default

\* Config::with_defaults
with_defaults == [debug |-> FALSE, port |-> 8080, host |-> T_localhost]

\* Mutant: a port that does not parse falls back to the default
from_file_line_soft_port(cfg, line) ==
    LET parts == split(line, "=")
    IN  IF Len(parts) /= 2 THEN Ok(cfg)
        ELSE LET key   == trim(parts[1])
                 value == trim(parts[2])
             IN  CASE key = T_debug ->
                        Ok([cfg EXCEPT !.debug = unwrap_or(parse_bool(value), FALSE)])
                   [] key = T_port ->
                        Ok([cfg EXCEPT !.port = unwrap_or(parse_u16(value), 8080)])
                   [] key = T_host -> Ok([cfg EXCEPT !.host = value])
                   [] OTHER -> Ok(cfg)

\* Mutant: a debug that does not parse keeps the value debug had
from_file_line_keeps_debug(cfg, line) ==
    LET parts == split(line, "=")
    IN  IF Len(parts) /= 2 THEN Ok(cfg)
        ELSE LET key   == trim(parts[1])
                 value == trim(parts[2])
             IN  CASE key = T_debug ->
                        Ok([cfg EXCEPT !.debug = unwrap_or(parse_bool(value), cfg.debug)])
                   [] key = T_port ->
                        LET r == parse_u16(value)
                        IN  IF IsErr(r) THEN Err(From_ParseIntError(r.err))
                            ELSE Ok([cfg EXCEPT !.port = r.val])
                   [] key = T_host -> Ok([cfg EXCEPT !.host = value])
                   [] OTHER -> Ok(cfg)

\* str::splitn(2, sep): the text before the first separator and all the
\* text after it
RECURSIVE splitn2_from(_, _, _)
splitn2_from(s, sep, cur) ==
    IF s = <<>> THEN <<cur>>
    ELSE IF Head(s) = sep THEN <<cur, Tail(s)>>
    ELSE splitn2_from(Tail(s), sep, Append(cur, Head(s)))

\* Mutant: the line is split at its first "=" only
from_file_line_first_sep(cfg, line) ==
    LET parts == splitn2_from(line, "=", <<>>)
    IN  IF Len(parts) /= 2 THEN Ok(cfg)
        ELSE LET key   == trim(parts[1])
                 value == trim(parts[2])
             IN  CASE key = T_debug ->
                        Ok([cfg EXCEPT !.debug = unwrap_or(parse_bool(value), FALSE)])
                   [] key = T_port ->
                        LET r == parse_u16(value)
                        IN  IF IsErr(r) THEN Err(From_ParseIntError(r.err))
                            ELSE Ok([cfg EXCEPT !.port = r.val])
                   [] key = T_host -> Ok([cfg EXCEPT !.host = value])
                   [] OTHER -> Ok(cfg)

\* Mutant: the value of host is stored as it stands after the "="
from_file_line_host_untrimmed(cfg, line) ==
    LET parts == split(line, "=")
    IN  IF Len(parts) /= 2 THEN Ok(cfg)
        ELSE LET key   == trim(parts[1])
                 value == trim(parts[2])
             IN  CASE key = T_debug ->
                        Ok([cfg EXCEPT !.debug = unwrap_or(parse_bool(value), FALSE)])
                   [] key = T_port ->
                        LET r == parse_u16(value)
                        IN  IF IsErr(r) THEN Err(From_ParseIntError(r.err))
                            ELSE Ok([cfg EXCEPT !.port = r.val])
                   [] key = T_host -> Ok([cfg EXCEPT !.host = parts[2]])
                   [] OTHER -> Ok(cfg)

\* Mutant: the key is matched without regard to case
from_file_line_any_case(cfg, line) ==
    LET parts == split(line, "=")
    IN  IF Len(parts) /= 2 THEN Ok(cfg)
        ELSE LET key   == LowerText(trim(parts[1]))
                 value == trim(parts[2])
             IN  CASE key = T_debug ->
                        Ok([cfg EXCEPT !.debug = unwrap_or(parse_bool(value), FALSE)])
                   [] key = T_port ->
                        LET r == parse_u16(value)
                        IN  IF IsErr(r) THEN Err(From_ParseIntError(r.err))
                            ELSE Ok([cfg EXCEPT !.port = r.val])
                   [] key = T_host -> Ok([cfg EXCEPT !.host = value])
                   [] OTHER -> Ok(cfg)

\* The body of the for loop on one line: the fields after the line, or the
\* failure the ? on the port returns
\* Mutant: the key is compared as it stands in the line
from_file_line_key_untrimmed(cfg, line) ==
    LET parts == split(line, "=")
    IN  IF Len(parts) /= 2 THEN Ok(cfg)
        ELSE LET key   == parts[1]
                 value == trim(parts[2])
             IN  CASE key = T_debug ->
                        Ok([cfg EXCEPT !.debug = unwrap_or(parse_bool(value), FALSE)])
                   [] key = T_port ->
                        LET r == parse_u16(value)
                        IN  IF IsErr(r) THEN Err(From_ParseIntError(r.err))
                            ELSE Ok([cfg EXCEPT !.port = r.val])
                   [] key = T_host -> Ok([cfg EXCEPT !.host = value])
                   [] OTHER -> Ok(cfg)

\* Mutant: a port line is taken only while port holds its default
from_file_line_first_port_wins(cfg, line) ==
    LET parts == split(line, "=")
    IN  IF Len(parts) /= 2 THEN Ok(cfg)
        ELSE LET key   == trim(parts[1])
                 value == trim(parts[2])
             IN  CASE key = T_debug ->
                        Ok([cfg EXCEPT !.debug = unwrap_or(parse_bool(value), FALSE)])
                   [] key = T_port ->
                        LET r == parse_u16(value)
                        IN  IF IsErr(r) THEN Err(From_ParseIntError(r.err))
                            ELSE IF cfg.port /= with_defaults.port THEN Ok(cfg)
                            ELSE Ok([cfg EXCEPT !.port = r.val])
                   [] key = T_host -> Ok([cfg EXCEPT !.host = value])
                   [] OTHER -> Ok(cfg)

from_file_line(cfg, line) ==
    LET parts == split(line, "=")
    IN  IF Len(parts) /= 2 THEN Ok(cfg)
        ELSE LET key   == trim(parts[1])
                 value == trim(parts[2])
             IN  CASE key = T_debug ->
                        Ok([cfg EXCEPT !.debug = unwrap_or(parse_bool(value), FALSE)])
                   [] key = T_port ->
                        LET r == parse_u16(value)
                        IN  IF IsErr(r) THEN Err(From_ParseIntError(r.err))
                            ELSE Ok([cfg EXCEPT !.port = r.val])
                   [] key = T_host -> Ok([cfg EXCEPT !.host = value])
                   [] OTHER -> Ok(cfg)

\* Mutant: a file that cannot be read is loaded as an empty one
from_file_read_swallows_io ==
    /\ cf_pc = "read"
    /\ LET r == read_to_string(fs, "config.txt")
           c == IF IsErr(r) THEN <<>> ELSE r.val
       IN  /\ text' = c
           /\ rest' = lines(c)
    /\ debug' = FALSE
    /\ port' = 8080
    /\ host' = T_localhost
    /\ cf_pc' = "loop"
    /\ UNCHANGED <<fs, out, loaded, processed, chainVars, exampleVars, callVars, threadVars, elsewhereVars>>

\* Mutant: port starts at 0 instead of its default
from_file_read_no_port_default ==
    /\ cf_pc = "read"
    /\ LET r == read_to_string(fs, "config.txt")
       IN  IF IsErr(r)
           THEN /\ loaded' = Err(From_io_Error(r.err))
                /\ cf_pc' = "ret"
                /\ UNCHANGED <<text, rest, debug, port, host>>
           ELSE /\ text' = r.val
                /\ debug' = FALSE
                /\ port' = 0
                /\ host' = T_localhost
                /\ rest' = lines(r.val)
                /\ cf_pc' = "loop"
                /\ UNCHANGED loaded
    /\ UNCHANGED <<fs, out, processed, chainVars, exampleVars, callVars, threadVars, elsewhereVars>>

\* Mutant: reading the file takes it out of the storage
from_file_read_consumes ==
    /\ cf_pc = "read"
    /\ LET r == read_to_string(fs, "config.txt")
       IN  IF IsErr(r)
           THEN /\ loaded' = Err(From_io_Error(r.err))
                /\ cf_pc' = "ret"
                /\ UNCHANGED <<text, rest, debug, port, host>>
           ELSE /\ text' = r.val
                /\ debug' = FALSE
                /\ port' = 8080
                /\ host' = T_localhost
                /\ rest' = lines(r.val)
                /\ cf_pc' = "loop"
                /\ UNCHANGED loaded
    /\ fs' = [fs EXCEPT !["config.txt"] = Missing]
    /\ UNCHANGED <<out, processed, chainVars, exampleVars, callVars, threadVars, elsewhereVars>>

\* let contents = std::fs::read_to_string(path)?; and the three let mut
from_file_read ==
    /\ cf_pc = "read"
    /\ LET r == read_to_string(fs, "config.txt")
       IN  IF IsErr(r)
           THEN /\ loaded' = Err(From_io_Error(r.err))
                /\ cf_pc' = "ret"
                /\ UNCHANGED <<text, rest, debug, port, host>>
           ELSE /\ text' = r.val
                /\ debug' = FALSE
                /\ port' = 8080
                /\ host' = T_localhost
                /\ rest' = lines(r.val)
                /\ cf_pc' = "loop"
                /\ UNCHANGED loaded
    /\ UNCHANGED <<fs, out, processed, chainVars, exampleVars, callVars, threadVars, elsewhereVars>>

\* One turn of for line in contents.lines()
from_file_loop ==
    /\ cf_pc = "loop"
    /\ rest /= <<>>
    /\ processed' = Append(processed, Head(rest))
    /\ LET r == from_file_line([debug |-> debug, port |-> port, host |-> host], Head(rest))
       IN  IF IsErr(r)
           THEN /\ loaded' = Err(r.err)
                /\ cf_pc' = "ret"
                /\ UNCHANGED <<rest, debug, port, host>>
           ELSE /\ debug' = r.val.debug
                /\ port' = r.val.port
                /\ host' = r.val.host
                /\ rest' = Tail(rest)
                /\ UNCHANGED <<cf_pc, loaded>>
    /\ UNCHANGED <<fs, out, text, chainVars, exampleVars, callVars, threadVars, elsewhereVars>>

\* Ok(Config { debug, port, host })
from_file_return ==
    /\ cf_pc = "loop"
    /\ rest = <<>>
    /\ loaded' = Ok([debug |-> debug, port |-> port, host |-> host])
    /\ cf_pc' = "ret"
    /\ UNCHANGED <<fs, out, text, rest, debug, port, host, processed, chainVars, exampleVars, callVars, threadVars, elsewhereVars>>

\* let _ = std::fs::write("config.txt", config_content);
config_example_write ==
    /\ ex_pc = "idle"
    /\ \E k \in WriteOutcomes(T_example_config) :
          fs' = fs_write(fs, "config.txt", T_example_config, k)
    /\ ex_pc' = "call"
    /\ UNCHANGED <<out, config, chainVars, loaderVars, callVars, threadVars, elsewhereVars>>

\* Config::from_file("config.txt"): the call
config_example_call ==
    /\ ex_pc = "call"
    /\ cf_pc = "idle"
    /\ cf_pc' = "read"
    /\ ex_pc' = "unwrap"
    /\ UNCHANGED <<fs, out, config, text, rest, debug, port, host, loaded, processed, chainVars, callVars, threadVars, elsewhereVars>>

\* Mutant: after a failed load the caller goes on with the fields the
\* loader had set when it failed
unwrap_or_else_partial(r) ==
    IF IsOk(r) THEN r.val ELSE [debug |-> debug, port |-> port, host |-> host]

\* The Config the caller goes on with: the one loaded, or with_defaults()
unwrap_or_else_defaults(r) == IF IsOk(r) THEN r.val ELSE with_defaults

\* .unwrap_or_else(|e| { println!(..., e); Config::with_defaults() })
config_example_unwrap ==
    /\ ex_pc = "unwrap"
    /\ cf_pc = "ret"
    /\ config' = unwrap_or_else_defaults(loaded)
    /\ out' = IF IsErr(loaded)
              THEN Append(out, [line |-> "config load error",
                                arg |-> Display_AppError(loaded.err)])
              ELSE out
    /\ ex_pc' = "print"
    /\ UNCHANGED <<fs, chainVars, loaderVars, callVars, threadVars, elsewhereVars>>

\* println!("{:?}", config)
config_example_print ==
    /\ ex_pc = "print"
    /\ out' = Append(out, [line |-> "config", arg |-> config])
    /\ ex_pc' = "remove"
    /\ UNCHANGED <<fs, config, chainVars, loaderVars, callVars, threadVars, elsewhereVars>>

\* let _ = std::fs::remove_file("config.txt");
config_example_remove ==
    /\ ex_pc = "remove"
    /\ \E ok \in BOOLEAN : fs' = fs_remove_file(fs, "config.txt", ok)
    /\ ex_pc' = "done"
    /\ UNCHANGED <<out, config, chainVars, loaderVars, callVars, threadVars, elsewhereVars>>

NextConfig ==
    \/ config_example_write
    \/ config_example_call
    \/ from_file_read
    \/ from_file_loop
    \/ from_file_return
    \/ config_example_unwrap
    \/ config_example_print
    \/ config_example_remove

SpecConfig == InitConfig /\ [][NextConfig]_vars

(***************************************************************************)
(* Texts the properties name                                               *)
(***************************************************************************)

T_minus_4 == <<"-", "4">>

T_abc == <<"a", "b", "c">>

T_2 == <<"2">>

L_debug_true == <<"d", "e", "b", "u", "g", "=", "t", "r", "u", "e">>

L_debug_yes == <<"d", "e", "b", "u", "g", "=", "y", "e", "s">>

L_port_3000 == <<"p", "o", "r", "t", "=", "3", "0", "0", "0">>

L_port_abc == <<"p", "o", "r", "t", "=", "a", "b", "c">>

L_host_h1 == <<"h", "o", "s", "t", "=", "h", "1">>

L_port_a_b == <<"p", "o", "r", "t", "=", "a", "=", "b">>

L_PORT_1 == <<"P", "O", "R", "T", "=", "1">>

T_h1 == <<"h", "1">>

NL == <<"\n">>

(***************************************************************************)
(* Properties of complex_operation (SpecChain)                             *)
(***************************************************************************)

\* complex_operation has returned to multiple_error_types_example, which
\* has not yet gone on: number.txt is as the read step found it
ChainReturned == op_pc = "ret" /\ mx_pc = "match"

NumberFile == fs["number.txt"]

\* What the parse step makes of a readable number.txt
NumberParsed == parse_f64(trim(NumberFile.data))

\* C1: the steps of complex_operation run in the order read, parse, sqrt,
\* divide; the first step that fails is the last one executed and its
\* failure is the result of the call: a failed read leaves parse, sqrt and
\* divide unexecuted, a failed parse leaves sqrt and divide unexecuted, a
\* failed sqrt (content "-4") leaves divide unexecuted.
C1_ShortCircuit ==
    /\ Len(ran) <= Len(ChainSteps)
    /\ \A i \in 1..Len(ran) : ran[i] = ChainSteps[i]
    /\ op_pc \notin {"ret"} => result = NoResult
    /\ ChainReturned =>
         /\ NumberFile.st /= "file" =>
              /\ ran = <<"read">>
              /\ result = Err([kind |-> "Io", cause |-> read_to_string(fs, "number.txt").err])
         /\ (NumberFile.st = "file" /\ IsErr(NumberParsed)) =>
              /\ ran = <<"read", "parse">>
              /\ result = Err([kind |-> "ParseFloat", cause |-> NumberParsed.err])
         /\ (NumberFile.st = "file" /\ IsOk(NumberParsed) /\ f64_lt_zero(NumberParsed.val)) =>
              /\ ran = <<"read", "parse", "sqrt">>
              /\ result = Err([kind |-> "Math", cause |-> "NegativeSquareRoot"])
         /\ IsOk(result) => ran = ChainSteps
         /\ NumberFile = File(T_minus_4) =>
              /\ \A i \in 1..Len(ran) : ran[i] /= "divide"
              /\ result = Err([kind |-> "Math", cause |-> "NegativeSquareRoot"])

\* C1 witness: number.txt holds "-4", sqrt has failed and the call has
\* returned without divide
C1_Witness ==
    /\ ChainReturned
    /\ NumberFile = File(T_minus_4)
    /\ ran = <<"read", "parse", "sqrt">>
    /\ IsErr(result)

\* C6: the category of the failure complex_operation returns names the
\* stage that failed: Io exactly when number.txt cannot be read, ParseFloat
\* exactly when it is read and its trimmed content is no float literal,
\* Math(NegativeSquareRoot) exactly when the parsed number is below zero;
\* never Parse, Math(DivisionByZero) or Math(Overflow).
C6_CategoryNamesStage ==
    ChainReturned =>
        /\ result.tag \in {"Ok", "Err"}
        /\ (IsErr(result) /\ result.err.kind = "Io") <=> NumberFile.st /= "file"
        /\ (IsErr(result) /\ result.err.kind = "ParseFloat")
               <=> (NumberFile.st = "file" /\ IsErr(NumberParsed))
        /\ (IsErr(result) /\ result.err.kind = "Math")
               <=> (NumberFile.st = "file" /\ IsOk(NumberParsed)
                        /\ f64_lt_zero(NumberParsed.val))
        /\ IsErr(result) =>
               /\ result.err.kind \in {"Io", "ParseFloat", "Math"}
               /\ result.err.kind = "Math" => result.err.cause = "NegativeSquareRoot"

\* C6 witness: number.txt holds "abc" and the call has returned ParseFloat
C6_Witness ==
    /\ ChainReturned
    /\ NumberFile = File(T_abc)
    /\ result = Err([kind |-> "ParseFloat", cause |-> "Invalid"])

\* The exponent of the unit in the last place of the finite f64 v
UlpExp(v) ==
    IF v.m = <<>> \/ BLen(v.m) + v.e - 53 < -1074 THEN -1074
    ELSE BLen(v.m) + v.e - 53

BDist(x, y) == IF BLess(x, y) THEN BSub(y, x) ELSE BSub(x, y)


\* The finite v is within half a unit in its last place of the square root
\* of the finite x > 0: (v - h)^2 <= x <= (v + h)^2 for that half unit h
NearRoot(v, x) ==
    LET c  == Min2(v.e, UlpExp(v) - 1)
        A  == BShl(v.m, v.e - c)
        H  == BShl(<<1>>, UlpExp(v) - 1 - c)
        E  == Min2(2 * c, x.e)
        xs == BShl(x.m, x.e - E)
    IN  /\ v.m /= <<>>
        /\ BLeq(BShl(BMul(BSub(A, H), BSub(A, H)), 2 * c - E), xs)
        /\ BLeq(xs, BShl(BMul(BAdd(A, H), BAdd(A, H)), 2 * c - E))

\* v is sqrt(x) for an x >= 0: not negative and the f64 at the square root
\* of x
IsRoot(v, x) ==
    IF x.cls = "inf" THEN v = F64Inf(FALSE)
    ELSE IF x.m = <<>> THEN v = x
    ELSE v.cls = "fin" /\ ~v.neg /\ NearRoot(v, x)

\* The finite q is within half a unit in its last place of a / b, for
\* finite a and b /= 0: |q * b - a| <= h * |b| for that half unit h
NearQuotient(q, a, b) ==
    LET E == Min2(Min2(q.e + b.e, a.e), UlpExp(q) - 1 + b.e)
    IN  BLeq(BDist(BShl(BMul(q.m, b.m), q.e + b.e - E), BShl(a.m, a.e - E)),
             BShl(b.m, UlpExp(q) - 1 + b.e - E))

\* |a / b| is at or above 2^1024 - 2^970, where f64 rounds to infinity
QuotientOverflows(a, b) ==
    LET E == Min2(a.e, 970 + b.e)
    IN  BLeq(BShl(BMul(BSub(BShl(<<1>>, 54), <<1>>), b.m), 970 + b.e - E),
             BShl(a.m, a.e - E))

\* q is a / b of IEEE 754
IsQuotient(q, a, b) ==
    IF a.cls = "nan" \/ b.cls = "nan" THEN q = F64Nan
    ELSE IF a.cls = "inf"
         THEN IF b.cls = "inf" THEN q = F64Nan
              ELSE q = F64Inf(a.neg /= b.neg)
    ELSE IF b.cls = "inf" THEN q = F64Zero(a.neg /= b.neg)
    ELSE IF b.m = <<>>
         THEN q = IF a.m = <<>> THEN F64Nan ELSE F64Inf(a.neg /= b.neg)
    ELSE IF QuotientOverflows(a, b) THEN q = F64Inf(a.neg /= b.neg)
    ELSE /\ q.cls = "fin"
         /\ q.neg = (a.neg /= b.neg)
         /\ NearQuotient(q, a, b)

\* C7: when number.txt is readable and its trimmed content parses to a
\* number x >= 0, complex_operation returns Ok(sqrt(x) / 10); content "100"
\* yields 1.0.
C7_SuccessValue ==
    ChainReturned =>
        /\ (NumberFile.st = "file" /\ IsOk(NumberParsed) /\ f64_ge_zero(NumberParsed.val)) =>
               /\ IsOk(result)
               /\ IsRoot(root, NumberParsed.val)
               /\ IsQuotient(result.val, root, F64Int(Divisor))
        /\ NumberFile = File(T_100) => result = Ok(F64Int(1))

\* C7 witness: number.txt holds "100" and the call has returned 1.0
C7_Witness ==
    /\ ChainReturned
    /\ NumberFile = File(T_100)
    /\ result = Ok(F64Int(1))

\* The same with a root that is not rational: number.txt holds "2" and the
\* value is 2547620669010309 * 2^-54 (0.1414213562373095)
C7_WitnessRounded ==
    /\ ChainReturned
    /\ NumberFile = File(T_2)
    /\ result = Ok([cls |-> "fin", neg |-> FALSE,
                    m |-> <<12677, 20991, 13360, 72>>, e |-> -54])

(***************************************************************************)
(* Properties of Config::from_file and config_example (SpecConfig)         *)
(***************************************************************************)

\* Config::from_file has returned to config_example, which has not yet
\* gone on: config.txt is as the read step found it
LoaderReturned == cf_pc = "ret" /\ ex_pc = "unwrap"

ConfigFile == fs["config.txt"]

\* Number of "=" in the line
CountSep(line) == Cardinality({ i \in 1..Len(line) : line[i] = "=" })

\* Where the first "=" of the line stands
FirstSep(line) == CHOOSE i \in 1..Len(line) :
                      line[i] = "=" /\ \A j \in 1..(i - 1) : line[j] /= "="

\* Of a line with exactly one "=": the trimmed texts before and after it
KeyOf(line) == trim(SubSeq(line, 1, FirstSep(line) - 1))

ValueOf(line) == trim(SubSeq(line, FirstSep(line) + 1, Len(line)))

WellFormed(line) == CountSep(line) = 1

Recognized(line) == WellFormed(line) /\ KeyOf(line) \in {T_debug, T_port, T_host}

\* A well-formed port line whose value is no u16
BadPortLine(line) ==
    /\ WellFormed(line)
    /\ KeyOf(line) = T_port
    /\ IsErr(parse_u16(ValueOf(line)))

\* A well-formed debug line whose value is neither "true" nor "false"
BadDebugLine(line) ==
    /\ WellFormed(line)
    /\ KeyOf(line) = T_debug
    /\ ValueOf(line) \notin {T_true, T_false}

\* The lines of a text, as a set
LinesOf(t) == { lines(t)[i] : i \in 1..Len(lines(t)) }

\* The for loop is about to take the line at the head of rest
AtLine == cf_pc = "loop" /\ rest /= <<>>

\* The loop has gone on to the next line with every field as it was
LineSkipped ==
    /\ debug' = debug
    /\ port' = port
    /\ host' = host
    /\ rest' = Tail(rest)
    /\ cf_pc' = "loop"
    /\ loaded' = loaded

\* C2: a readable config.txt with a line of exactly two parts, trimmed key
\* port and a trimmed value that is no u16 is loaded as the Parse failure
\* and no Config, whatever and wherever the other lines are.
C2_PortHardFail ==
    (LoaderReturned /\ ConfigFile.st = "file"
        /\ \E l \in LinesOf(ConfigFile.data) : BadPortLine(l))
    => (IsErr(loaded) /\ loaded.err.kind = "Parse")

\* C2 witness: "port=abc" before a valid "port=3000", loaded as Parse
C2_Witness ==
    /\ LoaderReturned
    /\ ConfigFile = File(L_port_abc \o NL \o L_port_3000)
    /\ loaded = Err([kind |-> "Parse", cause |-> "InvalidDigit"])

\* C3: a debug line whose value is no boolean does not abort the load:
\* once the loop has taken it, debug is false (also when an earlier line
\* had set it to true), the other fields are as they were and the loop is
\* at the next line.
C3_DebugSoftFail ==
    [][(AtLine /\ BadDebugLine(Head(rest)))
        => (/\ debug' = FALSE
            /\ port' = port
            /\ host' = host
            /\ rest' = Tail(rest)
            /\ cf_pc' = "loop"
            /\ loaded' = loaded)]_vars

\* C3 witness: "debug=true" then "debug=yes" have been taken, debug is
\* false and the load goes on
C3_Witness ==
    /\ cf_pc = "loop"
    /\ processed = <<L_debug_true, L_debug_yes>>
    /\ debug = FALSE
    /\ loaded = NoResult

\* C4: a line that holds no "=" or more than one changes no field and
\* fails nothing: the loop goes on to the next line, also for "port=a=b"
\* and "host=a=b".
C4_MalformedLineSkipped ==
    [][(AtLine /\ CountSep(Head(rest)) /= 1) => LineSkipped]_vars

\* C4 witness: "port=a=b" has been taken, port is still the default and the
\* load goes on
C4_Witness ==
    /\ cf_pc = "loop"
    /\ processed = <<L_port_a_b>>
    /\ port = 8080
    /\ loaded = NoResult

\* C5: Config::from_file returns Io exactly when config.txt cannot be read;
\* then no line has been taken and there is no Config; the only other
\* failure is Parse.
C5_IoIffUnreadable ==
    LoaderReturned =>
        /\ loaded.tag \in {"Ok", "Err"}
        /\ (IsErr(loaded) /\ loaded.err.kind = "Io") <=> ConfigFile.st /= "file"
        /\ ConfigFile.st /= "file" =>
               /\ processed = <<>>
               /\ loaded = Err([kind |-> "Io",
                                cause |-> read_to_string(fs, "config.txt").err])
        /\ IsErr(loaded) => loaded.err.kind \in {"Io", "Parse"}

\* C5 witness: config.txt is missing and the load has returned Io
C5_Witness ==
    /\ LoaderReturned
    /\ ConfigFile = Missing
    /\ loaded = Err([kind |-> "Io", cause |-> "NotFound"])

\* C8: a Config that Config::from_file returns has every field set: debug
\* is false or was parsed from a debug line, port is 8080 or was parsed
\* from a port line, host is "localhost" or the value of a host line; a
\* readable file without any recognized well-formed line gives exactly
\* with_defaults().
C8_FullyPopulated ==
    (LoaderReturned /\ IsOk(loaded)) =>
        LET c  == loaded.val
            ls == LinesOf(ConfigFile.data)
        IN  /\ ConfigFile.st = "file"
            /\ DOMAIN c = {"debug", "port", "host"}
            /\ c.debug \in BOOLEAN
            /\ c.port \in 0..65535
            /\ \/ c.debug = FALSE
               \/ \E l \in ls : WellFormed(l) /\ KeyOf(l) = T_debug /\ ValueOf(l) = T_true
            /\ \/ c.port = 8080
               \/ \E l \in ls : /\ WellFormed(l) /\ KeyOf(l) = T_port
                                /\ parse_u16(ValueOf(l)) = Ok(c.port)
            /\ \/ c.host = <<"l", "o", "c", "a", "l", "h", "o", "s", "t">>
               \/ \E l \in ls : WellFormed(l) /\ KeyOf(l) = T_host /\ ValueOf(l) = c.host
            /\ (\A l \in ls : ~Recognized(l)) =>
                   /\ c = with_defaults
                   /\ c = [debug |-> FALSE, port |-> 8080,
                           host |-> <<"l", "o", "c", "a", "l", "h", "o", "s", "t">>]

\* C8 witness: config.txt holds only "garbage" and "PORT=1" and the load
\* has returned the defaults
C8_Witness ==
    /\ LoaderReturned
    /\ ConfigFile = File(<<"g", "a", "r", "b", "a", "g", "e">> \o NL \o L_PORT_1)
    /\ loaded = Ok(with_defaults)

\* C9: after a failed load (Io or a port that does not parse) the Config
\* config_example goes on with, prints and ends with is exactly
\* with_defaults(); no field a line before the failing one had set is in
\* it.
C9_NoPartialConfig ==
    (ex_pc \in {"print", "remove", "done"} /\ IsErr(loaded)) =>
        /\ config = [debug |-> FALSE, port |-> 8080,
                     host |-> <<"l", "o", "c", "a", "l", "h", "o", "s", "t">>]
        /\ config = with_defaults
        /\ \A i \in 1..Len(out) : out[i].line = "config" => out[i].arg = with_defaults

\* C9 witness: "host=h1" was taken, "port=abc" failed the load, and
\* config_example has ended with the defaults
C9_Witness ==
    /\ ex_pc = "done"
    /\ processed = <<L_host_h1, L_port_abc>>
    /\ host = T_h1
    /\ IsErr(loaded)
    /\ config = with_defaults

\* C10: a line with exactly one "=" whose trimmed key is not exactly
\* debug, port or host (another case, the empty key) changes no field and
\* fails nothing, whatever its value.
C10_UnknownKeyIgnored ==
    [][(AtLine /\ WellFormed(Head(rest))
            /\ KeyOf(Head(rest)) \notin {T_debug, T_port, T_host})
        => LineSkipped]_vars

\* C10 witness: "PORT=1" has been taken, port is still the default and the
\* load goes on
C10_Witness ==
    /\ cf_pc = "loop"
    /\ processed = <<L_PORT_1>>
    /\ port = 8080
    /\ loaded = NoResult

\* The text of the line after its first "=", as it stands
AfterFirstSep(line) == SubSeq(line, FirstSep(line) + 1, Len(line))

\* A line whose text before the first "=" is host
HostLine(line) == CountSep(line) >= 1 /\ KeyOf(line) = T_host

L_host_a_b_spaced == <<"h", "o", "s", "t", "=", " ", "a", " ", "b", " ">>

L_host_eq_a_eq_b == <<"h", "o", "s", "t", "=", "a", "=", "b">>

L_host_empty == <<"h", "o", "s", "t", "=">>

\* C11 as claimed: once the loop has taken a host line, host is exactly
\* the text after "host=", also when that text holds "=" or is surrounded
\* by spaces, and the load goes on.
C11_HostVerbatim ==
    [][(AtLine /\ HostLine(Head(rest)))
        => (/\ host' = AfterFirstSep(Head(rest))
            /\ cf_pc' = "loop"
            /\ loaded' = loaded)]_vars

\* C11 as the code has it: no host line fails the load; a host line with
\* exactly one "=" sets host to the text after the "=" without its leading
\* and trailing whitespace (the empty text included); a host line with a
\* further "=" is skipped and host stays as it was.
C11_HostTrimmedOrSkipped ==
    [][(AtLine /\ HostLine(Head(rest)))
        => (/\ host' = IF CountSep(Head(rest)) = 1
                       THEN trim(AfterFirstSep(Head(rest)))
                       ELSE host
            /\ debug' = debug
            /\ port' = port
            /\ rest' = Tail(rest)
            /\ cf_pc' = "loop"
            /\ loaded' = loaded)]_vars

\* C11 witness: "host= a b " has been taken, host is "a b" and the load
\* goes on
C11_Witness ==
    /\ cf_pc = "loop"
    /\ processed = <<L_host_a_b_spaced>>
    /\ host = <<"a", " ", "b">>
    /\ loaded = NoResult

\* The same for a value that holds "=": "host=a=b" has been taken and host
\* is still the default
C11_WitnessSkipped ==
    /\ cf_pc = "loop"
    /\ processed = <<L_host_eq_a_eq_b>>
    /\ host = T_localhost

\* The same for the empty value
C11_WitnessEmpty ==
    /\ cf_pc = "loop"
    /\ processed = <<L_host_empty>>
    /\ host = <<>>

\* A well-formed line for the key with a value the key's parser accepts
ValidDebugLine(l) ==
    WellFormed(l) /\ KeyOf(l) = T_debug /\ ValueOf(l) \in {T_true, T_false}

ValidPortLine(l) ==
    WellFormed(l) /\ KeyOf(l) = T_port /\ IsOk(parse_u16(ValueOf(l)))

ValidHostLine(l) == WellFormed(l) /\ KeyOf(l) = T_host

\* The text is three lines: one valid line for each of debug, port, host
OneLineEach(t) ==
    /\ Len(lines(t)) = 3
    /\ \E d, p, h \in 1..3 :
           /\ {d, p, h} = 1..3
           /\ ValidDebugLine(lines(t)[d])
           /\ ValidPortLine(lines(t)[p])
           /\ ValidHostLine(lines(t)[h])

\* C14: a config.txt of exactly one valid line for each of debug, port and
\* host, in any order, is loaded as the Config of those three values; the
\* text config_example writes gives debug=true, port=3000, host=0.0.0.0.
C14_OneLineEachAnyOrder ==
    (LoaderReturned /\ ConfigFile.st = "file") =>
        /\ OneLineEach(ConfigFile.data) =>
               \E d, p, h \in 1..3 :
                   LET ls == lines(ConfigFile.data)
                   IN  /\ ValidDebugLine(ls[d])
                       /\ ValidPortLine(ls[p])
                       /\ ValidHostLine(ls[h])
                       /\ loaded = Ok([debug |-> (ValueOf(ls[d]) = T_true),
                                       port  |-> parse_u16(ValueOf(ls[p])).val,
                                       host  |-> ValueOf(ls[h])])
        /\ ConfigFile.data = T_example_config =>
               loaded = Ok([debug |-> TRUE, port |-> 3000,
                            host |-> <<"0", ".", "0", ".", "0", ".", "0">>])

\* C14 witness: the three lines in the order host, port, debug
C14_Witness ==
    /\ LoaderReturned
    /\ ConfigFile = File(L_host_h1 \o NL \o L_port_3000 \o NL \o L_debug_true)
    /\ loaded = Ok([debug |-> TRUE, port |-> 3000, host |-> T_h1])

\* The same for the text config_example writes
C14_WitnessExample ==
    /\ LoaderReturned
    /\ ConfigFile = File(T_example_config)
    /\ loaded = Ok([debug |-> TRUE, port |-> 3000,
                    host |-> <<"0", ".", "0", ".", "0", ".", "0">>])

(***************************************************************************)
(* read_username_from_file and its three shorter forms: the Result         *)
(* returned and the storage calls made, in order                           *)
(***************************************************************************)

\* Mutant: the Err arm of the read returns what was read so far
read_username_from_file_swallows_read(f) ==
    LET o == File_open(f, "username.txt")
    IN  IF IsErr(o) THEN [ret |-> Err(o.err), steps |-> <<"open">>]
        ELSE LET r == File_read_to_string(f, o.val)
             IN  [ret |-> IF IsOk(r) THEN Ok(r.val) ELSE Ok(<<>>),
                  steps |-> <<"open", "read">>]

\* match File::open { Err(e) => return Err(e) }, match f.read_to_string
read_username_from_file(f) ==
    LET o == File_open(f, "username.txt")
    IN  IF IsErr(o) THEN [ret |-> Err(o.err), steps |-> <<"open">>]
        ELSE LET r == File_read_to_string(f, o.val)
             IN  [ret |-> IF IsOk(r) THEN Ok(r.val) ELSE Err(r.err),
                  steps |-> <<"open", "read">>]

\* File::open(...)?; f.read_to_string(&mut s)?; Ok(s)
read_username_from_file_short(f) ==
    LET o == File_open(f, "username.txt")
    IN  IF IsErr(o) THEN [ret |-> Err(o.err), steps |-> <<"open">>]
        ELSE LET r == File_read_to_string(f, o.val)
             IN  IF IsErr(r) THEN [ret |-> Err(r.err), steps |-> <<"open", "read">>]
                 ELSE [ret |-> Ok(r.val), steps |-> <<"open", "read">>]

\* File::open(...)?.read_to_string(&mut s)?; Ok(s)
read_username_from_file_shorter(f) ==
    LET o == File_open(f, "username.txt")
    IN  IF IsErr(o) THEN [ret |-> Err(o.err), steps |-> <<"open">>]
        ELSE LET r == File_read_to_string(f, o.val)
             IN  IF IsErr(r) THEN [ret |-> Err(r.err), steps |-> <<"open", "read">>]
                 ELSE [ret |-> Ok(r.val), steps |-> <<"open", "read">>]

\* std::fs::read_to_string("username.txt")
read_username_from_file_shortest(f) ==
    [ret |-> read_to_string(f, "username.txt"), steps |-> <<"read_to_string">>]

(***************************************************************************)
(* testing: divide, Guess and Calculator::divide                           *)
(***************************************************************************)

\* panic!(...): the call does not return
Panic == [tag |-> "Panic"]

\* testing::divide: the quotient, or a panic
testing_divide(a, b) ==
    IF f64_eq_zero(b) THEN Panic ELSE Ok(f64_div(a, b))

\* Mutant: a negative divisor is refused too
Calculator_divide_refuses_negative(a, b) ==
    IF f64_eq_zero(b) \/ f64_lt_zero(b) THEN Err(D_DivisionByZero) ELSE Ok(f64_div(a, b))

\* Calculator::divide: Ok(a / b), or Err of the message
Calculator_divide(a, b) ==
    IF f64_eq_zero(b) THEN Err(D_DivisionByZero) ELSE Ok(f64_div(a, b))

I32Min == -2147483647 - 1
I32Max == 2147483647

\* Mutant: the upper test is made against 101
Guess_new_off_by_one(value) ==
    IF value < 1 \/ value > 101 THEN Panic ELSE Ok([value |-> value])

\* Guess::new
Guess_new(value) ==
    IF value < 1 \/ value > 100 THEN Panic ELSE Ok([value |-> value])

\* Guess::value
Guess_value(self) == self.value

(***************************************************************************)
(* The functions called directly: divide, sqrt, AppError::from and the     *)
(* loader's loop body, each on arguments drawn from bounded sets           *)
(***************************************************************************)

MaxNum == 4
MaxDen == 3

\* The f64 arguments: NaN, both infinities, both zeros, and the fractions
\* +-n/d up to the bounds
F64Samples ==
    {F64Nan, F64Inf(FALSE), F64Inf(TRUE)}
        \cup {F64Fin(s, n, d) : s \in BOOLEAN, n \in 0..MaxNum, d \in 1..MaxDen}

\* The keys and values a line is built from
PairKeys ==
    {T_debug, T_port, T_host, <<"P", "O", "R", "T">>, <<"n", "a", "m", "e">>,
     <<>>, <<"p", "o", "r", " ", "t">>, <<"h", "o", "s", "t", "=">>}

PairValues ==
    {T_true, T_false, <<"y", "e", "s">>, <<"T", "r", "u", "e">>,
     <<"3", "0", "0", "0">>, <<"6", "5", "5", "3", "6">>, <<"-", "1">>,
     <<"8", " ", "0">>, T_abc, <<>>, T_h1, <<"a", " ", "b">>, <<"a", "=", "b">>}

CfgSamples == {with_defaults, [debug |-> TRUE, port |-> 1, host |-> T_h1]}

\* key=value
Plain(key, value) == key \o <<"=">> \o value

\* ` key = value `
Padded(key, value) == <<" ">> \o key \o <<" ", "=", " ">> \o value \o <<" ">>

\* Every AppError the conversions make
AllAppErrors ==
    UNION {{AppError_from(ty, c) : c \in ForeignErrors[ty]} : ty \in DOMAIN ForeignErrors}

GuessMargin == 3

\* The i32 arguments of Guess::new: the range, its neighbours and the ends
\* of i32
GuessArgs == {I32Min, I32Max, 200} \cup ((1 - GuessMargin)..(100 + GuessMargin))

\* The states of username.txt
UsernameFiles == {Missing, Denied, NotUtf8} \cup {File(t) : t \in TextsOf(1)}

InitPure ==
    /\ InitLocals
    /\ InitNoThreads
    /\ InitElsewhere
    /\ call_ret = <<>>
    /\ \/ call_fn = "divide" /\ call_args \in F64Samples \X F64Samples
       \/ call_fn = "sqrt" /\ \E x \in F64Samples : call_args = <<x>>
       \/ call_fn = "from"
            /\ \E ty \in DOMAIN ForeignErrors : \E e \in ForeignErrors[ty] :
                    call_args = <<ty, e>>
       \/ call_fn = "from_file_line"
            /\ \E cfg \in CfgSamples, key \in PairKeys, value \in PairValues :
                    call_args = <<cfg, key, value>>
       \/ call_fn = "fmt" /\ \E e \in AllAppErrors : call_args = <<e>>
       \/ call_fn = "Guess::new" /\ \E v \in GuessArgs : call_args = <<v>>
       \/ call_fn = "divides" /\ call_args \in F64Samples \X F64Samples
       \/ call_fn = "read_username" /\ call_args = <<>>
    /\ \E uf \in (IF call_fn = "read_username" THEN UsernameFiles ELSE {Missing}) :
            fs = [p \in Paths |-> IF p = "username.txt" THEN uf ELSE Missing]

call_divide ==
    /\ call_fn = "divide" /\ call_ret = <<>>
    /\ call_ret' = <<divide(call_args[1], call_args[2])>>
    /\ UNCHANGED <<fs, out, chainVars, loaderVars, exampleVars, call_fn, call_args, threadVars, elsewhereVars>>

call_sqrt ==
    /\ call_fn = "sqrt" /\ call_ret = <<>>
    /\ call_ret' = <<sqrt(call_args[1])>>
    /\ UNCHANGED <<fs, out, chainVars, loaderVars, exampleVars, call_fn, call_args, threadVars, elsewhereVars>>

call_from ==
    /\ call_fn = "from" /\ call_ret = <<>>
    /\ call_ret' = <<AppError_from(call_args[1], call_args[2])>>
    /\ UNCHANGED <<fs, out, chainVars, loaderVars, exampleVars, call_fn, call_args, threadVars, elsewhereVars>>

\* The loop body on the plain line and on the padded line, from the same
\* configuration
call_from_file_line ==
    /\ call_fn = "from_file_line" /\ call_ret = <<>>
    /\ call_ret' = <<from_file_line(call_args[1], Plain(call_args[2], call_args[3])),
                     from_file_line(call_args[1], Padded(call_args[2], call_args[3]))>>
    /\ UNCHANGED <<fs, out, chainVars, loaderVars, exampleVars, call_fn, call_args, threadVars, elsewhereVars>>

\* format!("{}", e) of an AppError
call_fmt ==
    /\ call_fn = "fmt" /\ call_ret = <<>>
    /\ call_ret' = <<Display_AppError(call_args[1])>>
    /\ UNCHANGED <<fs, out, chainVars, loaderVars, exampleVars, call_fn, call_args, threadVars, elsewhereVars>>

\* Guess::new(value), and value() of the Guess it made
call_Guess_new ==
    /\ call_fn = "Guess::new" /\ call_ret = <<>>
    /\ LET g == Guess_new(call_args[1])
       IN  call_ret' = IF IsOk(g) THEN <<g, Guess_value(g.val)>> ELSE <<g>>
    /\ UNCHANGED <<fs, out, chainVars, loaderVars, exampleVars, call_fn, call_args, threadVars, elsewhereVars>>

\* testing::divide, Calculator::divide and error_handling's divide on the
\* same arguments
call_divides ==
    /\ call_fn = "divides" /\ call_ret = <<>>
    /\ call_ret' = <<testing_divide(call_args[1], call_args[2]),
                     Calculator_divide(call_args[1], call_args[2]),
                     divide(call_args[1], call_args[2])>>
    /\ UNCHANGED <<fs, out, chainVars, loaderVars, exampleVars, call_fn, call_args, threadVars, elsewhereVars>>

\* The four forms called on the same storage
call_read_username ==
    /\ call_fn = "read_username" /\ call_ret = <<>>
    /\ call_ret' = <<read_username_from_file(fs),
                     read_username_from_file_short(fs),
                     read_username_from_file_shorter(fs),
                     read_username_from_file_shortest(fs)>>
    /\ UNCHANGED <<fs, out, chainVars, loaderVars, exampleVars, call_fn, call_args, threadVars, elsewhereVars>>

NextPure ==
    \/ call_divide
    \/ call_sqrt
    \/ call_from
    \/ call_from_file_line
    \/ call_fmt
    \/ call_Guess_new
    \/ call_divides
    \/ call_read_username

SpecPure == InitPure /\ [][NextPure]_vars

Called(f) == call_fn = f /\ call_ret /= <<>>

\* C12: a line written ` key = value ` has the same effect on the
\* configuration, and the same outcome, as the line key=value, for every key
\* and value
C12_PaddingIgnored ==
    Called("from_file_line") => call_ret[1] = call_ret[2]

\* A padded port line was applied and set the port
C12_Witness ==
    /\ Called("from_file_line")
    /\ call_args[2] = T_port
    /\ call_args[1] = with_defaults
    /\ IsOk(call_ret[2]) /\ call_ret[2].val.port = 3000

\* A padded port line failed the load as the plain one does
C12_WitnessErr ==
    /\ Called("from_file_line")
    /\ call_args[2] = T_port /\ call_args[3] = T_abc
    /\ call_ret[2] = Err(From_ParseIntError("InvalidDigit"))

\* C15: divide(a, b) is Err(DivisionByZero) for every a when b is zero and
\* Ok(a / b) for every other b; it has no other failure
C15_DivideContract ==
    Called("divide") =>
        LET a == call_args[1]
            b == call_args[2]
            r == call_ret[1]
        IN  /\ r.tag \in {"Ok", "Err"}
            /\ (b.cls = "fin" /\ b.m = <<>>) => r = Err("DivisionByZero")
            /\ ~(b.cls = "fin" /\ b.m = <<>>) => IsOk(r) /\ IsQuotient(r.val, a, b)
            /\ IsErr(r) => r.err = "DivisionByZero"

\* 3/2 divided by -3 gave -1/2
C15_Witness ==
    /\ Called("divide")
    /\ call_args = <<F64Fin(FALSE, 3, 2), F64Int(-3)>>
    /\ call_ret = <<Ok(F64Fin(TRUE, 1, 2))>>

\* A division by negative zero was refused
C15_WitnessZero ==
    /\ Called("divide")
    /\ call_args = <<F64Int(0), F64Fin(TRUE, 0, 1)>>
    /\ call_ret = <<Err("DivisionByZero")>>

\* C16: sqrt(x) is Err(NegativeSquareRoot) for every x < 0 and Ok(r) with
\* r * r = x within tolerance for every x >= 0; every input gives Ok or that
\* one failure
C16_SqrtContract ==
    Called("sqrt") =>
        LET x == call_args[1]
            r == call_ret[1]
            negative == (x.cls = "inf" /\ x.neg) \/ (x.cls = "fin" /\ x.neg /\ x.m /= <<>>)
        IN  /\ r.tag \in {"Ok", "Err"}
            /\ negative => r = Err("NegativeSquareRoot")
            /\ (x.cls /= "nan" /\ ~negative) => IsOk(r) /\ IsRoot(r.val, x)
            /\ x.cls = "nan" => r = Ok(F64Nan)
            /\ IsErr(r) => r.err = "NegativeSquareRoot" /\ negative

\* The root of 4 is 2
C16_Witness ==
    /\ Called("sqrt")
    /\ call_args = <<F64Int(4)>>
    /\ call_ret = <<Ok(F64Int(2))>>

\* The root of 2 is 6369051672525773 * 2^-52 (1.4142135623730951)
C16_WitnessIrrational ==
    /\ Called("sqrt")
    /\ call_args = <<F64Int(2)>>
    /\ call_ret = <<Ok([cls |-> "fin", neg |-> FALSE,
                        m |-> <<15309, 19710, 633, 181>>, e |-> -52])>>

\* The root of -1/2 was refused
C16_WitnessNegative ==
    /\ Called("sqrt")
    /\ call_args = <<F64Fin(TRUE, 1, 2)>>
    /\ call_ret = <<Err("NegativeSquareRoot")>>

\* C17: the conversion into AppError maps io::Error to Io, ParseIntError to
\* Parse, ParseFloatError to ParseFloat and MathError to Math, embeds the
\* original value unchanged, and no two source types share a category
C17_ConversionTotalInjective ==
    Called("from") =>
        LET ty == call_args[1]
            e  == call_args[2]
            r  == call_ret[1]
        IN  /\ DOMAIN r = {"kind", "cause"}
            /\ r.kind = CASE ty = "io_Error"        -> "Io"
                          [] ty = "ParseIntError"   -> "Parse"
                          [] ty = "ParseFloatError" -> "ParseFloat"
                          [] ty = "MathError"       -> "Math"
            /\ r.cause = e
            /\ \A ty2 \in DOMAIN ForeignErrors \ {ty} :
                    \A e2 \in ForeignErrors[ty2] :
                        AppError_from(ty2, e2).kind /= r.kind

\* An integer-parse failure was converted
C17_Witness ==
    /\ Called("from")
    /\ call_args = <<"ParseIntError", "Empty">>
    /\ call_ret = <<[kind |-> "Parse", cause |-> "Empty"]>>

(***************************************************************************)
(* Config::from_file("config.txt") called twice by one caller, the storage *)
(* left alone between the two calls                                        *)
(***************************************************************************)

InitReload ==
    /\ \E f \in ConfigFiles : fs = [p \in Paths |-> IF p = "config.txt" THEN f ELSE Missing]
    /\ InitLocals
    /\ InitNoThreads
    /\ InitElsewhere
    /\ call_fn = "from_file" /\ call_args = <<"config.txt">> /\ call_ret = <<>>

\* The caller enters from_file; the callee's frame holds what the last call
\* left in it
reload_call ==
    /\ call_fn = "from_file"
    /\ cf_pc = "idle"
    /\ Len(call_ret) < 2
    /\ cf_pc' = "read"
    /\ UNCHANGED <<fs, out, text, rest, debug, port, host, loaded, processed,
                   chainVars, exampleVars, callVars, threadVars, elsewhereVars>>

\* The caller takes the returned Result
reload_return ==
    /\ call_fn = "from_file"
    /\ cf_pc = "ret"
    /\ call_ret' = Append(call_ret, loaded)
    /\ cf_pc' = "idle"
    /\ loaded' = NoResult
    /\ processed' = <<>>
    /\ UNCHANGED <<fs, out, text, rest, debug, port, host,
                   chainVars, exampleVars, call_fn, call_args, threadVars, elsewhereVars>>

NextReload ==
    \/ reload_call
    \/ from_file_read
    \/ from_file_loop
    \/ from_file_return
    \/ reload_return

SpecReload == InitReload /\ [][NextReload]_vars

\* C13: two loads of the same file, the storage unchanged in between, return
\* equal results: the same Config field by field, or the same failure
C13_LoadTwiceEqual ==
    Len(call_ret) = 2 =>
        /\ call_ret[1] = call_ret[2]
        /\ IsOk(call_ret[1]) =>
              /\ call_ret[1].val.debug = call_ret[2].val.debug
              /\ call_ret[1].val.port = call_ret[2].val.port
              /\ call_ret[1].val.host = call_ret[2].val.host
        /\ IsErr(call_ret[1]) => call_ret[1].err.kind = call_ret[2].err.kind

\* Two loads of a file that sets all three fields have returned
C13_Witness ==
    /\ call_fn = "from_file"
    /\ Len(call_ret) = 2
    /\ IsOk(call_ret[2])
    /\ call_ret[2].val = [debug |-> TRUE, port |-> 3000, host |-> T_h1]

\* Two loads of a file with a bad port line have returned
C13_WitnessErr ==
    /\ call_fn = "from_file"
    /\ Len(call_ret) = 2
    /\ IsErr(call_ret[2]) /\ call_ret[2].err.kind = "Parse"

\* Two loads of a missing file have returned
C13_WitnessIo ==
    /\ call_fn = "from_file"
    /\ Len(call_ret) = 2
    /\ IsErr(call_ret[2]) /\ call_ret[2].err.kind = "Io"

(***************************************************************************)
(* result_basics: hello.txt is opened twice; another process may change    *)
(* the file while the function runs                                        *)
(***************************************************************************)

\* The states of hello.txt
HelloFiles == {Missing, Denied, NotUtf8} \cup {File(t) : t \in TextsOf(1)}

InitBasics ==
    /\ \E hf \in HelloFiles : fs = [p \in Paths |-> IF p = "hello.txt" THEN hf ELSE Missing]
    /\ fs0 = fs
    /\ th = <<>>
    /\ unlinked = <<>>
    /\ InitLocals
    /\ InitNoCall
    /\ rb_pc = "open"
    /\ touched = FALSE
    /\ InitNoRun
    /\ overflow_checks = FALSE
    /\ InitNoGame
    /\ InitNoCache

\* let f = File::open("hello.txt"); and the first match: the Err arm prints
\* and returns
result_basics_open ==
    /\ rb_pc = "open"
    /\ LET f == File_open(fs, "hello.txt")
       IN  IF IsOk(f)
           THEN /\ out' = Append(out, [line |-> "result_basics opened", arg |-> <<>>])
                /\ rb_pc' = "reopen"
           ELSE /\ out' = Append(out, [line |-> "result_basics open error", arg |-> f.err])
                /\ rb_pc' = "done"
    /\ UNCHANGED <<fs, touched, chainVars, loaderVars, exampleVars, callVars, threadVars,
                   runVars, buildVars, gameVars, cacheVars>>

\* let f = File::open("hello.txt"); and the second match, up to File::create
result_basics_reopen ==
    /\ rb_pc = "reopen"
    /\ LET f == File_open(fs, "hello.txt")
       IN  IF IsOk(f)
           THEN /\ rb_pc' = "done"
                /\ UNCHANGED out
           ELSE IF f.err = "NotFound"
           THEN /\ out' = Append(out, [line |-> "result_basics creating", arg |-> <<>>])
                /\ rb_pc' = "create"
           ELSE /\ out' = Append(out, [line |-> "result_basics open problem", arg |-> f.err])
                /\ rb_pc' = "done"
    /\ UNCHANGED <<fs, touched, chainVars, loaderVars, exampleVars, callVars, threadVars,
                   runVars, buildVars, gameVars, cacheVars>>

\* match File::create("hello.txt")
result_basics_create ==
    /\ rb_pc = "create"
    /\ \E ok \in BOOLEAN :
          /\ fs' = File_create(fs, "hello.txt", ok)
          /\ out' = IF ok THEN out
                    ELSE Append(out, [line |-> "result_basics create error", arg |-> <<>>])
    /\ rb_pc' = "done"
    /\ UNCHANGED <<touched, chainVars, loaderVars, exampleVars, callVars, threadVars,
                   runVars, buildVars, gameVars, cacheVars>>

\* Another process removes hello.txt or takes the permission to read it,
\* once, while result_basics runs
other_process_changes_hello ==
    /\ rb_pc \in {"open", "reopen", "create"}
    /\ ~touched
    /\ \E s \in {Missing, Denied} :
          /\ s /= fs["hello.txt"]
          /\ fs' = [fs EXCEPT !["hello.txt"] = s]
    /\ touched' = TRUE
    /\ UNCHANGED <<out, rb_pc, chainVars, loaderVars, exampleVars, callVars, threadVars,
                   runVars, buildVars, gameVars, cacheVars>>

NextBasics ==
    \/ result_basics_open
    \/ result_basics_reopen
    \/ result_basics_create
    \/ other_process_changes_hello

SpecBasics == InitBasics /\ [][NextBasics]_vars

\* C27: when hello.txt does not exist at the call and nothing else changes
\* the file system, hello.txt exists after result_basics has returned
C27_CreatesHello ==
    (rb_pc = "done" /\ ~touched /\ fs0["hello.txt"] = Missing) =>
        fs["hello.txt"].st /= "missing"

(***************************************************************************)
(* run_all_error_handling: a header and one example after the other, then  *)
(* the removal of hello.txt.  Each println! is one entry of out.           *)
(***************************************************************************)

\* The digit loop of i32::from_str_radix(_, 10)
RECURSIVE i32_digits(_, _, _)
i32_digits(ds, acc, neg) ==
    IF ds = <<>> THEN Ok(acc)
    ELSE IF ~IsDigit(Head(ds)) THEN Err("InvalidDigit")
    ELSE IF neg
         THEN (IF acc < -(I32Max \div 10) \/ acc * 10 < I32Min + DigitVal(Head(ds))
               THEN Err("NegOverflow")
               ELSE i32_digits(Tail(ds), acc * 10 - DigitVal(Head(ds)), neg))
    ELSE IF acc > I32Max \div 10 \/ acc * 10 > I32Max - DigitVal(Head(ds))
         THEN Err("PosOverflow")
    ELSE i32_digits(Tail(ds), acc * 10 + DigitVal(Head(ds)), neg)

\* <i32 as FromStr>::from_str: an optional sign and at least one digit
parse_i32(s) ==
    IF s = <<>> THEN Err("Empty")
    ELSE IF Len(s) = 1 /\ s[1] \in {"+", "-"} THEN Err("InvalidDigit")
    ELSE i32_digits(IF s[1] \in {"+", "-"} THEN Tail(s) ELSE s, 0, s[1] = "-")

\* Result::expect: the value, or a panic
expect(r) == IF IsOk(r) THEN r.val ELSE Panic

\* The texts of the eight println!("\n=== ... ===") of run_all_error_handling
Headers ==
    <<<<"\n", "=", "=", "=", " ", "P", "a", "n", "i", "c", "u306E", "u4F8B",
        " ", "=", "=", "=">>,
      <<"\n", "=", "=", "=", " ", "R", "e", "s", "u", "l", "t", "u578B", "u306E",
        "u57FA", "u672C", " ", "=", "=", "=">>,
      <<"\n", "=", "=", "=", " ", "u", "n", "w", "r", "a", "p", "u3068",
        "e", "x", "p", "e", "c", "t", " ", "=", "=", "=">>,
      <<"\n", "=", "=", "=", " ", "u30A8", "u30E9", "u30FC", "u306E", "u4F1D",
        "u64AD", " ", "=", "=", "=">>,
      <<"\n", "=", "=", "=", " ", "u30AB", "u30B9", "u30BF", "u30E0", "u30A8",
        "u30E9", "u30FC", "u578B", " ", "=", "=", "=">>,
      <<"\n", "=", "=", "=", " ", "u8907", "u6570", "u306E", "u30A8", "u30E9",
        "u30FC", "u578B", " ", "=", "=", "=">>,
      <<"\n", "=", "=", "=", " ", "O", "p", "t", "i", "o", "n", "u3068",
        "R", "e", "s", "u", "l", "t", "u306E", "u5909", "u63DB", " ", "=", "=", "=">>,
      <<"\n", "=", "=", "=", " ", "u8A2D", "u5B9A", "u30D5", "u30A1", "u30A4",
        "u30EB", "u306E", "u4F8B", " ", "=", "=", "=">>>>

\* println!("\n=== ... ==="): the i-th header
Header(i) == [line |-> "header", arg |-> Headers[i]]

\* The states of config.txt the whole run starts from
RunAllConfigFiles ==
    {File(t) : t \in TextsOf(1) \cup ConfigExtraTexts} \cup {Missing, Denied, NotUtf8}

\* The states of number.txt the whole run starts from: "100", "-4", "0",
\* "2", " 100\n", "abc", "", "nan", "1e400", "-1e-400"
RunAllNumberFiles ==
    {Missing, Denied, NotUtf8} \cup
    { File(t) : t \in { <<"1", "0", "0">>, <<"-", "4">>, <<"0">>, <<"2">>,
                        <<" ", "1", "0", "0", "\n">>, <<"a", "b", "c">>, <<>>,
                        <<"n", "a", "n">>, <<"1", "e", "4", "0", "0">>,
                        <<"-", "1", "e", "-", "4", "0", "0">> } }

\* The states of hello.txt the whole run starts from
RunAllHelloFiles == {Missing, Denied, File(<<"h", "i">>)}

\* The states of username.txt the whole run starts from
RunAllUsernameFiles == {Missing, File(T_h1)}

InitRunAll ==
    /\ \E nf \in RunAllNumberFiles, cf \in RunAllConfigFiles,
          hf \in RunAllHelloFiles, uf \in RunAllUsernameFiles :
            fs = [p \in Paths |-> CASE p = "number.txt" -> nf
                                    [] p = "config.txt" -> cf
                                    [] p = "hello.txt" -> hf
                                    [] OTHER -> uf]
    /\ out = <<>>
    /\ op_pc = "idle" /\ contents = <<>> /\ number = NoF64 /\ root = NoF64
    /\ result = NoResult /\ ran = <<>> /\ mx_pc = "wait"
    /\ cf_pc = "idle" /\ text = <<>> /\ rest = <<>>
    /\ debug = FALSE /\ port = 0 /\ host = <<>>
    /\ loaded = NoResult /\ processed = <<>>
    /\ ex_pc = "wait" /\ config = NoConfig
    /\ call_fn = "run_all_error_handling" /\ call_args = <<>> /\ call_ret = <<>>
    /\ InitNoThreads
    /\ rb_pc = "wait" /\ touched = FALSE
    /\ ra_pc = "panic"
    /\ overflow_checks = FALSE
    /\ InitNoGame
    /\ InitNoCache

\* let v = vec![1, 2, 3] of panic_example
panic_example_v == <<1, 2, 3>>

\* The header and panic_example(): a line, then the third element of v
run_all_panic_example ==
    /\ ra_pc = "panic"
    /\ out' = out \o <<Header(1),
                       [line |-> "panic_example", arg |-> <<>>],
                       IF Len(panic_example_v) <= 2
                       THEN [line |-> "panic_example too small", arg |-> <<>>]
                       ELSE [line |-> "panic_example third", arg |-> panic_example_v[3]]>>
    /\ ra_pc' = "basics"
    /\ UNCHANGED <<fs, chainVars, loaderVars, exampleVars, callVars, threadVars,
                   basicsVars, buildVars, gameVars, cacheVars>>

\* The header and the call of result_basics()
run_all_result_basics ==
    /\ ra_pc = "basics"
    /\ out' = Append(out, Header(2))
    /\ rb_pc' = "open"
    /\ ra_pc' = "unwrap"
    /\ UNCHANGED <<fs, touched, chainVars, loaderVars, exampleVars, callVars, threadVars,
                   buildVars, gameVars, cacheVars>>

\* The header and unwrap_expect_example(): "42".parse().expect(...) printed
run_all_unwrap_expect_example ==
    /\ ra_pc = "unwrap"
    /\ rb_pc = "done"
    /\ out' = IF IsErr(parse_i32(<<"4", "2">>))
              THEN Append(out, Header(3))
              ELSE out \o <<Header(3),
                            [line |-> "unwrap_expect_example",
                             arg |-> expect(parse_i32(<<"4", "2">>))]>>
    /\ ra_pc' = IF IsErr(parse_i32(<<"4", "2">>)) THEN "panicked" ELSE "propagate"
    /\ UNCHANGED <<fs, chainVars, loaderVars, exampleVars, callVars, threadVars,
                   basicsVars, buildVars, gameVars, cacheVars>>

\* The header and error_propagation_example(): the name read from
\* username.txt, or the failure, printed
run_all_error_propagation_example ==
    /\ ra_pc = "propagate"
    /\ out' = out \o <<Header(4),
                       IF IsOk(read_username_from_file(fs).ret)
                       THEN [line |-> "username",
                             arg |-> read_username_from_file(fs).ret.val]
                       ELSE [line |-> "username error",
                             arg |-> read_username_from_file(fs).ret.err]>>
    /\ ra_pc' = "custom"
    /\ UNCHANGED <<fs, chainVars, loaderVars, exampleVars, callVars, threadVars,
                   basicsVars, buildVars, gameVars, cacheVars>>

\* The header and custom_error_example(): four calls, each matched and
\* printed
custom_error_example ==
    /\ ra_pc = "custom"
    /\ out' = out \o <<Header(5),
                       [line |-> "custom_error_example", arg |-> divide(F64Int(10), F64Int(2))],
                       [line |-> "custom_error_example", arg |-> divide(F64Int(10), F64Int(0))],
                       [line |-> "custom_error_example", arg |-> sqrt(F64Int(16))],
                       [line |-> "custom_error_example", arg |-> sqrt(F64Int(-4))]>>
    /\ ra_pc' = "multiple"
    /\ UNCHANGED <<fs, chainVars, loaderVars, exampleVars, callVars, threadVars,
                   basicsVars, buildVars, gameVars, cacheVars>>

\* The header and the call of multiple_error_types_example()
run_all_multiple_error_types_example ==
    /\ ra_pc = "multiple"
    /\ out' = Append(out, Header(6))
    /\ mx_pc' = "idle"
    /\ ra_pc' = "option"
    /\ UNCHANGED <<fs, op_pc, contents, number, root, result, ran, loaderVars,
                   exampleVars, callVars, threadVars,
                   basicsVars, buildVars, gameVars, cacheVars>>

\* The header and option_result_conversion(): four values printed, no file
\* touched
option_result_conversion ==
    /\ ra_pc = "option"
    /\ mx_pc = "done"
    /\ out' = out \o <<Header(7),
                       [line |-> "option_result_conversion", arg |-> Ok(42)],
                       [line |-> "option_result_conversion", arg |-> [tag |-> "Some", val |-> 42]],
                       [line |-> "option_result_conversion", arg |-> <<>>],
                       [line |-> "option_result_conversion", arg |-> "backup_config"]>>
    /\ ra_pc' = "config"
    /\ UNCHANGED <<fs, chainVars, loaderVars, exampleVars, callVars, threadVars,
                   basicsVars, buildVars, gameVars, cacheVars>>

\* The header and the call of config_example()
run_all_config_example ==
    /\ ra_pc = "config"
    /\ out' = Append(out, Header(8))
    /\ ex_pc' = "idle"
    /\ ra_pc' = "cleanup"
    /\ UNCHANGED <<fs, config, chainVars, loaderVars, callVars, threadVars,
                   basicsVars, buildVars, gameVars, cacheVars>>

\* let _ = std::fs::remove_file("hello.txt");
run_all_remove_file ==
    /\ ra_pc = "cleanup"
    /\ ex_pc = "done"
    /\ \E ok \in BOOLEAN : fs' = fs_remove_file(fs, "hello.txt", ok)
    /\ ra_pc' = "done"
    /\ UNCHANGED <<out, chainVars, loaderVars, exampleVars, callVars, threadVars,
                   basicsVars, buildVars, gameVars, cacheVars>>

NextRunAll ==
    \/ run_all_panic_example
    \/ run_all_result_basics
    \/ result_basics_open
    \/ result_basics_reopen
    \/ result_basics_create
    \/ other_process_changes_hello
    \/ run_all_unwrap_expect_example
    \/ run_all_error_propagation_example
    \/ custom_error_example
    \/ run_all_multiple_error_types_example
    \/ NextChain
    \/ option_result_conversion
    \/ run_all_config_example
    \/ NextConfig
    \/ run_all_remove_file

SpecRunAll == InitRunAll /\ [][NextRunAll]_vars

\* The entries of out printed by the line l
Printed(l) == SelectSeq(out, LAMBDA e : e.line = l)

IsPrefix(s, t) == Len(s) <= Len(t) /\ s = SubSeq(t, 1, Len(s))

\* C19: a failure returned by complex_operation is printed once by
\* multiple_error_types_example, a failure returned by Config::from_file is
\* printed once by config_example before the defaults are used, and no step
\* of either is run a second time
C19_FailureRenderedOnce ==
    /\ Printed("complex_operation error") =
          IF mx_pc \in {"remove", "done"} /\ IsErr(result)
          THEN <<[line |-> "complex_operation error", arg |-> Display_AppError(result.err)]>>
          ELSE <<>>
    /\ Printed("config load error") =
          IF ex_pc \in {"print", "remove", "done"} /\ IsErr(loaded)
          THEN <<[line |-> "config load error", arg |-> Display_AppError(loaded.err)]>>
          ELSE <<>>
    /\ (ex_pc \in {"remove", "done"} /\ IsErr(loaded)) =>
          /\ config = with_defaults
          /\ SubSeq(out, Len(out) - 1, Len(out)) =
                <<[line |-> "config load error", arg |-> Display_AppError(loaded.err)],
                  [line |-> "config", arg |-> with_defaults]>>
    /\ IsPrefix(ran, ChainSteps)
    /\ IsErr(result) => op_pc = "ret"
    /\ IsErr(loaded) => cf_pc = "ret"
    /\ text /= <<>> => IsPrefix(processed, lines(text))

\* Both examples met a failure in one run and each printed its own
C19_Witness ==
    /\ ex_pc = "done"
    /\ IsErr(result) /\ result.err.kind = "ParseFloat"
    /\ IsErr(loaded) /\ loaded.err.kind = "Parse"
    /\ Len(Printed("complex_operation error")) = 1
    /\ Len(Printed("config load error")) = 1

\* The MathError values held by the entry e of out, if any
MathCauses(e) ==
    IF e.line = "custom_error_example"
    THEN IF IsErr(e.arg) THEN {e.arg.err} ELSE {}
    ELSE IF e.line \in {"complex_operation error", "config load error"}
    THEN {m \in MathError : e.arg = Display_AppError(From_MathError(m))}
    ELSE {}

\* C20: a Math failure held by a caller is the failure sqrt or divide has
\* just returned on the caller's own argument, the loader never holds one,
\* and the Overflow case is held nowhere
C20_MathErrorOnlyFromDomain ==
    /\ (IsErr(result) /\ result.err.kind = "Math") =>
          /\ ran /= <<>>
          /\ \/ /\ ran[Len(ran)] = "sqrt"
                /\ f64_lt_zero(number)
                /\ result.err.cause = "NegativeSquareRoot"
             \/ /\ ran[Len(ran)] = "divide"
                /\ f64_eq_zero(F64Int(Divisor))
                /\ result.err.cause = "DivisionByZero"
    /\ IsErr(loaded) => loaded.err.kind /= "Math"
    /\ IsErr(result) => result.err.cause /= "Overflow"
    /\ \A i \in 1..Len(out) :
          /\ "Overflow" \notin MathCauses(out[i])
          /\ (out[i].line = "complex_operation error" /\ MathCauses(out[i]) /= {}) =>
                /\ IsErr(result) /\ result.err.kind = "Math"
                /\ MathCauses(out[i]) = {result.err.cause}
          /\ out[i].line = "config load error" => MathCauses(out[i]) = {}

\* The chain was refused by sqrt and the example printed that failure, after
\* custom_error_example printed its two
C20_Witness ==
    /\ mx_pc = "done"
    /\ result = Err(From_MathError("NegativeSquareRoot"))
    /\ number = F64Int(-4)
    /\ \E i \in 1..Len(out) :
          out[i].line = "complex_operation error" /\ MathCauses(out[i]) = {"NegativeSquareRoot"}
    /\ \E i \in 1..Len(out) :
          out[i].line = "custom_error_example" /\ MathCauses(out[i]) = {"DivisionByZero"}

(***************************************************************************)
(* Threads: each runs one invocation of complex_operation, of              *)
(* Config::from_file, or of one of their example wrappers, on the one      *)
(* storage.  A thread's frame is its own; the storage calls are the steps  *)
(* that interleave.                                                        *)
(***************************************************************************)

NumThreads == 2

Threads == 1..NumThreads

\* Most threads that run config_example
MaxConfigWriters == 1

Roles == {"complex_operation", "from_file", "multiple_error_types_example", "config_example"}

IsWrapper(role) == role \in {"multiple_error_types_example", "config_example"}

IsChain(role) == role \in {"complex_operation", "multiple_error_types_example"}

\* The file an invocation works on, and the text its wrapper writes there
PathOf(role) == IF IsChain(role) THEN "number.txt" ELSE "config.txt"

WrittenBy(role) == IF IsChain(role) THEN T_100 ELSE T_example_config

\* let result = divide(root, 10.0)?;  Ok(result), from what divide returned
complex_operation_divided(d) ==
    IF IsErr(d) THEN Err(From_MathError(d.err)) ELSE Ok(d.val)

\* let root = sqrt(number)?; and on, from what sqrt returned
complex_operation_rooted(s) ==
    IF IsErr(s) THEN Err(From_MathError(s.err))
    ELSE complex_operation_divided(divide(s.val, F64Int(Divisor)))

\* let number: f64 = contents.trim().parse()?; and on, from what parse
\* returned
complex_operation_parsed(p) ==
    IF IsErr(p) THEN Err(From_ParseFloatError(p.err))
    ELSE complex_operation_rooted(sqrt(p.val))

\* complex_operation from the outcome of its read to its return value
complex_operation_result(r) ==
    IF IsErr(r) THEN Err(From_io_Error(r.err))
    ELSE complex_operation_parsed(parse_f64(trim(r.val)))

\* The loop of Config::from_file over the lines ls, from the fields cfg
RECURSIVE from_file_lines(_, _)
from_file_lines(cfg, ls) ==
    IF ls = <<>> THEN Ok(cfg)
    ELSE LET r == from_file_line(cfg, Head(ls))
         IN  IF IsErr(r) THEN r ELSE from_file_lines(r.val, Tail(ls))

\* Config::from_file from the outcome of its read to its return value
from_file_result(r) ==
    IF IsErr(r) THEN Err(From_io_Error(r.err))
    ELSE from_file_lines(with_defaults, lines(r.val))

ResultOf(role, r) ==
    IF IsChain(role) THEN complex_operation_result(r) ELSE from_file_result(r)

\* What a thread has open: nothing, the file at the path of its
\* invocation, or a file removed since it was opened
NoFd == [at |-> "none", ix |-> 0]

AtPath == [at |-> "path", ix |-> 0]

Unlinked(i) == [at |-> "unlinked", ix |-> i]

\* A frame: wrote is the number of characters the wrapper's own write_all
\* has written (-1 before File::create and when that failed), fd is the
\* file the invocation has open, got, cap and start_cap are the buffer of
\* read_to_string, its capacity and the capacity it started with, rd is
\* what read_to_string returned and res what the invocation returned
NoFrame(role) ==
    [role |-> role,
     pc |-> IF IsWrapper(role) THEN "write" ELSE "read",
     wrote |-> -1, fd |-> NoFd, got |-> <<>>, cap |-> 0, start_cap |-> 0,
     rd |-> NoResult, res |-> NoResult]

InitThreads ==
    /\ \E nf \in {Missing, File(T_minus_4)}, cf \in {Missing, File(L_port_abc)} :
            fs = [p \in Paths |-> CASE p = "number.txt" -> nf
                                    [] p = "config.txt" -> cf
                                    [] OTHER -> Missing]
    /\ fs0 = fs
    /\ \E roles \in [Threads -> Roles] :
          /\ Cardinality({t \in Threads : roles[t] = "config_example"}) <= MaxConfigWriters
          /\ th = [t \in Threads |-> NoFrame(roles[t])]
    /\ unlinked = <<>>
    /\ InitLocals
    /\ InitNoCall
    /\ InitElsewhere

\* The bytes of the file thread t has open
FdData(t) ==
    IF th[t].fd.at = "path" THEN fs[PathOf(th[t].role)].data
    ELSE unlinked[th[t].fd.ix]

\* The removed files u once thread t has closed the file it has open: a
\* removed file no thread has open any more is gone
Released(u, t) ==
    IF th[t].fd.at = "unlinked" /\ \A v \in Threads \ {t} : th[v].fd /= th[t].fd
    THEN [u EXCEPT ![th[t].fd.ix] = <<>>]
    ELSE u

\* The bytes no write has set, between the old end of a file and a write
\* beyond it
Holes(n) == [i \in 1..n |-> "u0000"]

\* write at the offset at of a file holding old: new is laid over what is
\* there, after holes where the file ends before the offset
WriteAt(old, at, new) ==
    (IF at <= Len(old) THEN SubSeq(old, 1, at) ELSE old \o Holes(at - Len(old)))
        \o new \o SubSeq(old, at + Len(new) + 1, Len(old))

\* read at the offset at into a buffer of the size request: what is there,
\* nothing at the end of the file and beyond it
ReadAt(data, at, request) == SubSeq(data, at + 1, Min2(at + request, Len(data)))

\* std::fs::write of a wrapper, its File::create: the file is made, or cut
\* to nothing where it exists, or the call fails
thread_create(t) ==
    /\ th[t].pc = "write"
    /\ \E ok \in BOOLEAN :
          IF ok
          THEN /\ fs' = File_create(fs, PathOf(th[t].role), TRUE)
               /\ th' = [th EXCEPT ![t].wrote = 0, ![t].fd = AtPath, ![t].pc = "write_all"]
          ELSE /\ fs' = fs
               /\ th' = [th EXCEPT ![t].pc = "read"]
    /\ UNCHANGED <<out, chainVars, loaderVars, exampleVars, callVars, unlinked, fs0, elsewhereVars>>

\* The file thread t has open after a write call that wrote n characters
\* of its text (none: the call failed)
thread_written(t, n) ==
    IF n = 0 THEN FdData(t)
    ELSE WriteAt(FdData(t), th[t].wrote,
                 SubSeq(WrittenBy(th[t].role), th[t].wrote + 1, th[t].wrote + n))

\* write_all is over with a write call that wrote n characters: the call
\* failed or the text is out
thread_write_over(t, n) == n = 0 \/ th[t].wrote + n = Len(WrittenBy(th[t].role))

\* std::fs::write of a wrapper, one write call of its write_all on the
\* open file, at the offset the calls before have reached: it writes what
\* is left of the text or a part of it, or fails, which ends write_all; a
\* file removed in between is no longer the one at the path
thread_write(t) ==
    /\ th[t].pc = "write_all"
    /\ \E n \in 0..(Len(WrittenBy(th[t].role)) - th[t].wrote) :
          /\ fs' = IF th[t].fd.at = "path"
                   THEN [fs EXCEPT ![PathOf(th[t].role)] = File(thread_written(t, n))]
                   ELSE fs
          /\ unlinked' =
                IF th[t].fd.at /= "unlinked" THEN unlinked
                ELSE IF thread_write_over(t, n)
                THEN Released([unlinked EXCEPT ![th[t].fd.ix] = thread_written(t, n)], t)
                ELSE [unlinked EXCEPT ![th[t].fd.ix] = thread_written(t, n)]
          /\ th' = [th EXCEPT ![t].wrote = @ + n,
                              ![t].fd = IF thread_write_over(t, n) THEN NoFd ELSE @,
                              ![t].pc = IF thread_write_over(t, n) THEN "read" ELSE @]
    /\ UNCHANGED <<out, chainVars, loaderVars, exampleVars, callVars, fs0, elsewhereVars>>

\* Mutant: opening a file takes it off its path
thread_open_takes(t) ==
    /\ th[t].pc = "read"
    /\ IF IsErr(File_open(fs, PathOf(th[t].role)))
       THEN /\ th' = [th EXCEPT ![t].rd = Err(File_open(fs, PathOf(th[t].role)).err),
                                ![t].pc = "compute"]
            /\ UNCHANGED <<fs, unlinked>>
       ELSE /\ th' = [th EXCEPT ![t].fd = Unlinked(Len(unlinked) + 1), ![t].pc = "stat"]
            /\ unlinked' = Append(unlinked, fs[PathOf(th[t].role)].data)
            /\ fs' = [fs EXCEPT ![PathOf(th[t].role)] = Missing]
    /\ UNCHANGED <<out, chainVars, loaderVars, exampleVars, callVars, fs0, elsewhereVars>>

\* std::fs::read_to_string(...) of the invocation, its File::open
thread_open(t) ==
    /\ th[t].pc = "read"
    /\ IF IsErr(File_open(fs, PathOf(th[t].role)))
       THEN th' = [th EXCEPT ![t].rd = Err(File_open(fs, PathOf(th[t].role)).err),
                             ![t].pc = "compute"]
       ELSE th' = [th EXCEPT ![t].fd = AtPath, ![t].pc = "stat"]
    /\ UNCHANGED <<fs, out, chainVars, loaderVars, exampleVars, callVars, unlinked, fs0, elsewhereVars>>

\* read_to_string, its file.metadata(): the buffer is reserved for the
\* size the file has now
thread_stat(t) ==
    /\ th[t].pc = "stat"
    /\ th' = [th EXCEPT ![t].cap = Len(FdData(t)), ![t].start_cap = Len(FdData(t)),
                        ![t].pc = "loop"]
    /\ UNCHANGED <<fs, out, chainVars, loaderVars, exampleVars, callVars, unlinked, fs0, elsewhereVars>>

\* The capacity a Vec<u8> of the capacity cap grows to for need bytes
Grown(cap, need) ==
    IF 2 * cap >= need /\ 2 * cap >= 8 THEN 2 * cap ELSE IF need >= 8 THEN need ELSE 8

\* The next read call is the probe: the buffer is full at the capacity it
\* started with (nothing, for an empty file), and 32 bytes are read aside
\* to see whether the file has ended
IsProbe(fr) == fr.pc = "loop" /\ Len(fr.got) = fr.cap /\ fr.cap = fr.start_cap

\* The capacity at a read call into the buffer: 32 more are reserved for
\* a buffer that is full
FillCap(fr) ==
    IF Len(fr.got) = fr.cap THEN Grown(fr.cap, Len(fr.got) + 32) ELSE fr.cap

\* The bytes the next read call asks for
ReadRequest(fr) == IF IsProbe(fr) THEN 32 ELSE FillCap(fr) - Len(fr.got)

\* The frame after the read call returned chunk: with an empty chunk the
\* file has ended and read_to_string returns the buffer
thread_after_read(fr, chunk) ==
    IF chunk = <<>>
    THEN [fr EXCEPT !.rd = Ok(fr.got), !.got = <<>>, !.cap = 0, !.start_cap = 0,
                    !.fd = NoFd, !.pc = "compute"]
    ELSE [fr EXCEPT !.got = @ \o chunk,
                    !.cap = IF IsProbe(fr) THEN Grown(fr.cap, Len(fr.got) + Len(chunk))
                            ELSE FillCap(fr),
                    !.pc = IF IsProbe(fr) THEN "fill" ELSE "loop"]

\* read_to_string, one read call at the offset the calls before have
\* reached; the call that returns nothing ends it
thread_read(t) ==
    /\ th[t].pc \in {"loop", "fill"}
    /\ th' = [th EXCEPT ![t] = thread_after_read(@, ReadAt(FdData(t), Len(@.got), ReadRequest(@)))]
    /\ unlinked' = IF ReadAt(FdData(t), Len(th[t].got), ReadRequest(th[t])) = <<>>
                   THEN Released(unlinked, t)
                   ELSE unlinked
    /\ UNCHANGED <<fs, out, chainVars, loaderVars, exampleVars, callVars, fs0, elsewhereVars>>

\* The rest of the invocation, on its own frame, up to its return
thread_compute(t) ==
    /\ th[t].pc = "compute"
    /\ th' = [th EXCEPT ![t].res = ResultOf(th[t].role, th[t].rd),
                        ![t].pc = IF IsWrapper(th[t].role) THEN "print" ELSE "ret"]
    /\ UNCHANGED <<fs, out, chainVars, loaderVars, exampleVars, callVars, unlinked, fs0, elsewhereVars>>

\* .unwrap_or_else(|e| { println!(..., e); ... }) of config_example: the
\* closure prints the failure
thread_unwrap(t) ==
    /\ th[t].pc = "print"
    /\ th[t].role = "config_example"
    /\ out' = IF IsErr(th[t].res)
              THEN Append(out, [line |-> "config load error",
                                arg |-> Display_AppError(th[t].res.err)])
              ELSE out
    /\ th' = [th EXCEPT ![t].pc = "print_config"]
    /\ UNCHANGED <<fs, chainVars, loaderVars, exampleVars, callVars, unlinked, fs0, elsewhereVars>>

\* The println! of a wrapper: the arm of the match in
\* multiple_error_types_example, the Config in config_example
thread_print(t) ==
    /\ \/ th[t].pc = "print" /\ th[t].role = "multiple_error_types_example"
       \/ th[t].pc = "print_config"
    /\ LET r == th[t].res
       IN  out' = Append(out,
                    IF IsChain(th[t].role)
                    THEN (IF IsOk(r)
                          THEN [line |-> "complex_operation result", arg |-> r.val]
                          ELSE [line |-> "complex_operation error",
                                arg |-> Display_AppError(r.err)])
                    ELSE [line |-> "config", arg |-> unwrap_or_else_defaults(r)])
    /\ th' = [th EXCEPT ![t].pc = "remove"]
    /\ UNCHANGED <<fs, chainVars, loaderVars, exampleVars, callVars, unlinked, fs0, elsewhereVars>>

\* The threads that have the file at the path p open
Holders(p) == {u \in Threads : th[u].fd.at = "path" /\ PathOf(th[u].role) = p}

\* let _ = std::fs::remove_file(...) of a wrapper: the file leaves its
\* path, and the threads that have it open go on with the removed file
thread_remove(t) ==
    /\ th[t].pc = "remove"
    /\ \E ok \in BOOLEAN :
          /\ fs' = fs_remove_file(fs, PathOf(th[t].role), ok)
          /\ unlinked' = IF ok /\ Holders(PathOf(th[t].role)) /= {}
                         THEN Append(unlinked, fs[PathOf(th[t].role)].data)
                         ELSE unlinked
          /\ th' = [u \in Threads |->
                      IF u = t THEN [th[u] EXCEPT !.pc = "done"]
                      ELSE IF ok /\ u \in Holders(PathOf(th[t].role))
                      THEN [th[u] EXCEPT !.fd = Unlinked(Len(unlinked) + 1)]
                      ELSE th[u]]
    /\ UNCHANGED <<out, chainVars, loaderVars, exampleVars, callVars, fs0, elsewhereVars>>

NextThreads ==
    \E t \in Threads :
        \/ thread_create(t)
        \/ thread_write(t)
        \/ thread_open(t)
        \/ thread_stat(t)
        \/ thread_read(t)
        \/ thread_compute(t)
        \/ thread_unwrap(t)
        \/ thread_print(t)
        \/ thread_remove(t)

SpecThreads == InitThreads /\ [][NextThreads]_vars

\* The invocation of thread t has returned
Returned(t) == th[t].pc \in {"ret", "print", "print_config", "remove", "done"}

\* What the invocation of thread t returns when it runs with no other
\* thread, from the storage the run started with and with the same outcome
\* of its own write
AloneResult(t) ==
    LET role == th[t].role
        p    == PathOf(role)
        f    == IF IsWrapper(role) THEN fs_write(fs0, p, WrittenBy(role), th[t].wrote)
                ELSE fs0
    IN  ResultOf(role, read_to_string(f, p))

\* C18 as stated: in every interleaving every invocation, those made through
\* the wrappers included, returns the result it returns when run alone
C18_AllInvocationsIndependent ==
    \A t \in Threads : Returned(t) => th[t].res = AloneResult(t)

\* Thread u writes and removes the file the invocation of thread t reads:
\* u is another thread and runs the wrapper of that file
Disturbs(u, t) ==
    u /= t /\ IsWrapper(th[u].role) /\ PathOf(th[u].role) = PathOf(th[t].role)

\* C18 amended: an invocation returns the result it returns when run alone
\* whenever no other thread runs the wrapper of the file it reads, whatever
\* else runs beside it (invocations that only read, and wrappers of the
\* other file).  Stated at the step the invocation returns at, which
\* leaves the starting storage, the roles and the outcome of the own write
\* as they are; what an invocation has returned stays in every step after
C18_UndisturbedIndependent ==
    [][\A t \in Threads :
          /\ (~Returned(t) /\ Returned(t)' /\ \A u \in Threads : ~Disturbs(u, t))
                => th'[t].res = AloneResult(t)
          /\ Returned(t) => th'[t].res = th[t].res]_vars

\* The wrapper of the chain ran beside the loader, each on its own file:
\* the wrapper wrote "100" over "-4" and returned 1, the loader returned
\* its own failure
C18_Witness ==
    /\ fs0["number.txt"] = File(T_minus_4)
    /\ th[1].role = "multiple_error_types_example" /\ th[1].pc = "done"
    /\ th[1].wrote = Len(T_100) /\ th[1].res = Ok(F64Int(1))
    /\ th[2].role = "from_file" /\ th[2].pc = "ret"
    /\ th[2].res = Err(From_ParseIntError("InvalidDigit"))

\* The chain and the loader ran side by side and each returned its own
\* failure
C18_WitnessReaders ==
    /\ th[1].role = "from_file" /\ th[1].pc = "ret"
    /\ th[1].res = Err(From_ParseIntError("InvalidDigit"))
    /\ th[2].role = "complex_operation" /\ th[2].pc = "ret"
    /\ th[2].res = Err(From_MathError("NegativeSquareRoot"))

\* A wrapper ran beside an invocation that reads the file it writes, and
\* the wrapper returned what it returns alone
C18_WitnessWrapperBesideReader ==
    /\ th[1].role = "config_example" /\ th[1].pc = "done"
    /\ th[1].wrote = Len(T_example_config) /\ IsOk(th[1].res)
    /\ th[2].role = "from_file" /\ th[2].pc = "ret"

\* Two wrappers of the chain ran side by side
C18_WitnessWrappers ==
    /\ th[1].role = "multiple_error_types_example" /\ th[1].pc = "done"
    /\ th[2].role = "multiple_error_types_example" /\ th[2].pc = "done"
    /\ th[1].wrote = Len(T_100) /\ th[1].res = Err(From_io_Error("NotFound"))

\* A read in two calls with a write between them: the chain read "-4" and
\* then, from the "100" a wrapper had written over it, "0"
C18_WitnessTornRead ==
    /\ th[2].role = "complex_operation" /\ th[2].pc = "ret"
    /\ th[1].role = "multiple_error_types_example"
    /\ th[2].rd = Ok(<<"-", "4", "0">>)
    /\ th[2].res = Err(From_MathError("NegativeSquareRoot"))

\* A write in two calls with a read between them: the chain read the "10"
\* the wrapper had written so far, and the wrapper read its own "100"
C18_WitnessShortWrite ==
    /\ th[1].role = "multiple_error_types_example" /\ th[1].pc = "done"
    /\ th[1].wrote = Len(T_100) /\ th[1].res = Ok(F64Int(1))
    /\ th[2].role = "complex_operation" /\ th[2].pc = "ret"
    /\ th[2].rd = Ok(<<"1", "0">>)
    /\ IsOk(th[2].res) /\ th[2].res.val /= F64Int(1)

\* The loader read "port=abc" and then the end of the text a wrapper had
\* written over it
C18_WitnessTornConfig ==
    /\ th[1].role = "config_example"
    /\ th[2].role = "from_file" /\ th[2].pc = "ret"
    /\ th[2].rd = Ok(L_port_abc \o SubSeq(T_example_config, 9, Len(T_example_config)))
    /\ th[2].res = Err(From_ParseIntError("InvalidDigit"))

\* s begins with p
StartsWith(s, p) == Len(p) <= Len(s) /\ SubSeq(s, 1, Len(p)) = p

\* C21: the rendering of an AppError is a non-empty prefix that belongs to
\* its category, followed by exactly the rendering of the embedded cause;
\* errors of one category share the prefix and the rendering of an error of
\* another category never begins with it
C21_RenderingNamesCategory ==
    Called("fmt") =>
        LET e == call_args[1]
            r == call_ret[1]
            c == Display_cause(e)
            n == Len(r) - Len(c)
            p == SubSeq(r, 1, n)
        IN  /\ n > 0
            /\ SubSeq(r, n + 1, Len(r)) = c
            /\ \A e2 \in AllAppErrors :
                  IF e2.kind = e.kind
                  THEN Display_AppError(e2) = p \o Display_cause(e2)
                  ELSE ~StartsWith(Display_AppError(e2), p)

\* A Math failure was rendered with the Math prefix and the text of the
\* negative square root
C21_Witness ==
    /\ Called("fmt")
    /\ call_args = <<From_MathError("NegativeSquareRoot")>>
    /\ call_ret = <<P_Math \o D_NegativeSquareRoot>>

\* An integer-parse failure was rendered
C21_WitnessParse ==
    /\ Called("fmt")
    /\ call_args = <<From_ParseIntError("InvalidDigit")>>
    /\ call_ret = <<P_Parse \o D_InvalidDigit>>

\* C23: Guess::new(value) panics exactly when value < 1 or value > 100, and
\* for every other value returns a Guess whose value() is the value given;
\* no Guess holds a value outside 1..100
C23_GuessRange ==
    Called("Guess::new") =>
        LET v == call_args[1]
            g == call_ret[1]
        IN  /\ (g = Panic) <=> (v < 1 \/ v > 100)
            /\ g /= Panic =>
                  /\ IsOk(g)
                  /\ Len(call_ret) = 2 /\ call_ret[2] = v
                  /\ g.val.value \in 1..100

\* Guess::new(100) made a Guess of 100
C23_Witness ==
    /\ Called("Guess::new")
    /\ call_args = <<100>>
    /\ call_ret = <<Ok([value |-> 100]), 100>>

\* Guess::new(101) panicked
C23_WitnessPanic ==
    /\ Called("Guess::new")
    /\ call_args = <<101>>
    /\ call_ret = <<Panic>>

\* C24: testing::divide panics, Calculator::divide returns Err and
\* error_handling's divide returns DivisionByZero for the same arguments,
\* those with b zero; for every other b the three give the same quotient a / b
C24_DividesAgree ==
    Called("divides") =>
        LET a == call_args[1]
            b == call_args[2]
            zero == b.cls = "fin" /\ b.m = <<>>
        IN  /\ (call_ret[1] = Panic) <=> zero
            /\ IsErr(call_ret[2]) <=> zero
            /\ (call_ret[3] = Err("DivisionByZero")) <=> zero
            /\ ~zero =>
                  /\ IsOk(call_ret[1]) /\ IsOk(call_ret[2]) /\ IsOk(call_ret[3])
                  /\ call_ret[1].val = call_ret[2].val
                  /\ call_ret[2].val = call_ret[3].val
                  /\ IsQuotient(call_ret[1].val, a, b)

\* The three took 3 by -2
C24_Witness ==
    /\ Called("divides")
    /\ call_args = <<F64Int(3), F64Int(-2)>>
    /\ call_ret[1] = Ok(F64Fin(TRUE, 3, 2))
    /\ call_ret[2] = call_ret[1] /\ call_ret[3] = call_ret[1]

\* The three refused 1 by 0, each in its way
C24_WitnessZero ==
    /\ Called("divides")
    /\ call_args = <<F64Int(1), F64Int(0)>>
    /\ call_ret = <<Panic, Err(D_DivisionByZero), Err("DivisionByZero")>>

\* The places in ls of the well-formed lines whose key is key
LinesFor(ls, key) == { i \in 1..Len(ls) : WellFormed(ls[i]) /\ KeyOf(ls[i]) = key }

\* The last of a non-empty set of places
LastOf(S) == CHOOSE i \in S : \A j \in S : j <= i

\* The line is a valid line for the key it names
ValidLine(l) == ValidDebugLine(l) \/ ValidPortLine(l) \/ ValidHostLine(l)

\* The field of the returned Config that the key names holds the value v
FieldHolds(key, v) ==
    CASE key = T_debug -> loaded.val.debug = (v = T_true)
      [] key = T_port  -> Ok(loaded.val.port) = parse_u16(v)
      [] key = T_host  -> loaded.val.host = v

\* C25 as stated: when a recognized key stands on several well-formed lines
\* with valid values, the field of the returned Config holds the value of
\* the last of these lines, whatever the other lines are
C25_LastValidLineWins ==
    (LoaderReturned /\ IsOk(loaded) /\ ConfigFile.st = "file") =>
        LET ls == lines(ConfigFile.data)
        IN  \A key \in {T_debug, T_port, T_host} :
                LET V == { i \in LinesFor(ls, key) : ValidLine(ls[i]) }
                IN  Cardinality(V) >= 2 => FieldHolds(key, ValueOf(ls[LastOf(V)]))

\* C25 amended: the field of the returned Config holds the value of the
\* last well-formed line of its key when that line carries a valid value,
\* whatever the lines of the other keys are; when the last well-formed
\* debug line carries an invalid value, debug is false whatever the valid
\* debug lines before it say
C25_LastLineWins ==
    (LoaderReturned /\ IsOk(loaded) /\ ConfigFile.st = "file") =>
        LET ls == lines(ConfigFile.data)
        IN  \A key \in {T_debug, T_port, T_host} :
                LET I == LinesFor(ls, key)
                IN  I /= {} =>
                        IF ValidLine(ls[LastOf(I)])
                        THEN FieldHolds(key, ValueOf(ls[LastOf(I)]))
                        ELSE key = T_debug /\ ~loaded.val.debug

\* Two port lines with a host line between them: the second port is held
C25_Witness ==
    /\ LoaderReturned
    /\ ConfigFile.st = "file"
    /\ Len(lines(ConfigFile.data)) = 3
    /\ lines(ConfigFile.data)[1] = L_port_3000
    /\ lines(ConfigFile.data)[2] = L_host_h1
    /\ ValidPortLine(lines(ConfigFile.data)[3])
    /\ loaded = Ok([debug |-> FALSE, port |-> 80, host |-> T_h1])

\* debug=true then debug=false: debug is false
C25_WitnessDebug ==
    /\ LoaderReturned
    /\ ConfigFile.st = "file"
    /\ lines(ConfigFile.data) = <<L_debug_true, <<"d", "e", "b", "u", "g", "=", "f", "a", "l", "s", "e">>>>
    /\ IsOk(loaded) /\ ~loaded.val.debug

\* Two valid debug lines say true and a debug line with an invalid value
\* follows them: debug is false
C25_WitnessInvalidLast ==
    /\ LoaderReturned
    /\ ConfigFile.st = "file"
    /\ lines(ConfigFile.data) = <<L_debug_true, L_debug_true, L_debug_yes>>
    /\ IsOk(loaded) /\ ~loaded.val.debug

UsernameFile == fs["username.txt"]

\* C26: on every state of username.txt the four forms return the same
\* Result: the content of a readable file, the failure of the open where
\* the open fails, the failure of the read where the read fails; no form
\* makes a storage call after the one that failed
C26_UsernameFormsAgree ==
    Called("read_username") =>
        /\ \A i, j \in 1..4 : call_ret[i].ret = call_ret[j].ret
        /\ \A i \in 1..4 :
              LET r == call_ret[i]
              IN  /\ UsernameFile.st = "file" => r.ret = Ok(UsernameFile.data)
                  /\ UsernameFile.st = "missing" => r.ret = Err("NotFound")
                  /\ UsernameFile.st = "denied" => r.ret = Err("PermissionDenied")
                  /\ UsernameFile.st = "notutf8" => r.ret = Err("InvalidData")
        /\ \A i \in 1..3 :
              call_ret[i].steps =
                  IF UsernameFile.st \in {"missing", "denied"}
                  THEN <<"open">> ELSE <<"open", "read">>
        /\ Len(call_ret[4].steps) = 1

\* The four returned the content of a readable file
C26_Witness ==
    /\ Called("read_username")
    /\ UsernameFile = File(L_host_h1)
    /\ \A i \in 1..4 : call_ret[i].ret = Ok(L_host_h1)

\* The four returned the failure of the read
C26_WitnessRead ==
    /\ Called("read_username")
    /\ UsernameFile = NotUtf8
    /\ \A i \in 1..4 : call_ret[i].ret = Err("InvalidData")

\* The four returned the failure of the open, the first three without a read
C26_WitnessOpen ==
    /\ Called("read_username")
    /\ UsernameFile = Missing
    /\ \A i \in 1..4 : call_ret[i].ret = Err("NotFound")
    /\ call_ret[1].steps = <<"open">>

(***************************************************************************)
(* The example wrappers and their files                                    *)
(***************************************************************************)

\* One wrapper's steps on its file: the first statement writes the file
\* (or fails, changing nothing or leaving a part of the text), the
\* statements up to the cleanup leave
\* it alone, and the wrapper returns by the cleanup only, which removes the
\* file (or fails and changes nothing)
WrapperSteps(pc, pcNext, p, data) ==
    /\ (pc = "idle" /\ pcNext /= "idle") =>
            /\ pcNext = "call"
            /\ \/ fs' = fs
               \/ /\ fs'[p].st = "file"
                  /\ IsPrefix(fs'[p].data, data)
                  /\ \A q \in Paths \ {p} : fs'[q] = fs[q]
    /\ (pc \notin {"wait", "idle", "remove", "done"}) => fs'[p] = fs[p]
    /\ (pc /= "done" /\ pcNext = "done") =>
            /\ pc = "remove"
            /\ fs'[p] = Missing \/ fs' = fs
    /\ pc = "done" => pcNext = "done"

\* One wrapper's steps on its file as the claim has them: a file that is
\* there before the call is overwritten by the first statement, and the
\* wrapper returns by the cleanup only, which removes the file (or fails
\* and changes nothing)
WrapperOverwrites(pc, pcNext, p, data) ==
    /\ (pc = "idle" /\ pcNext /= "idle" /\ fs[p] /= Missing) => fs'[p] = File(data)
    /\ (pc /= "done" /\ pcNext = "done") =>
            /\ pc = "remove"
            /\ fs'[p] = Missing \/ fs' = fs

\* C28 as stated: both wrappers return through their remove_file, after
\* which the file is gone unless the remove failed, and a file of that name
\* that is there before the call is overwritten first
C28_OverwrittenThenRemoved ==
    [][/\ WrapperOverwrites(mx_pc, mx_pc', "number.txt", T_100)
       /\ WrapperOverwrites(ex_pc, ex_pc', "config.txt", T_example_config)]_vars

\* C28 amended: both wrappers clean up on every exit path: whether the
\* pipeline or the load succeeded or failed, the wrapper returns through
\* its remove_file, after which the file is gone unless the remove failed;
\* the file is written first, over whatever was there, unless the write
\* fails, which leaves the file as it was or holding a first part of the
\* text
C28_CleanupOnEveryPath ==
    [][/\ WrapperSteps(mx_pc, mx_pc', "number.txt", T_100)
       /\ WrapperSteps(ex_pc, ex_pc', "config.txt", T_example_config)]_vars

\* Both wrappers have returned after a failure, and both files are gone
C28_Witness ==
    /\ mx_pc = "done" /\ IsErr(result) /\ fs["number.txt"] = Missing
    /\ ex_pc = "done" /\ IsErr(loaded) /\ fs["config.txt"] = Missing

\* Both wrappers have returned after a success, and both files are gone
C28_WitnessOk ==
    /\ mx_pc = "done" /\ IsOk(result) /\ fs["number.txt"] = Missing
    /\ ex_pc = "done" /\ IsOk(loaded) /\ fs["config.txt"] = Missing

\* The write of multiple_error_types_example failed on a number.txt that was
\* there: the wrapper is at its cleanup and the file is not overwritten
C28_WitnessNotOverwritten ==
    /\ mx_pc = "remove"
    /\ fs["number.txt"] = File(T_minus_4)

(***************************************************************************)
(* u32 values, held as two 16-bit halves                                   *)
(***************************************************************************)

Half == 65536

U32(hi, lo) == [hi |-> hi, lo |-> lo]

\* The u32 of a number below 2^31
U32Of(n) == U32(n \div Half, n % Half)

\* u32::MAX
U32Max == U32(Half - 1, Half - 1)

\* The sum of two values as a number: the upper half is not cut
WideAdd(a, b) ==
    [hi |-> a.hi + b.hi + ((a.lo + b.lo) \div Half), lo |-> (a.lo + b.lo) % Half]

\* a + b leaves the u32 range
u32_add_overflows(a, b) == WideAdd(a, b).hi >= Half

\* a + b in a build without overflow checks: the sum modulo 2^32
u32_wrapping_add(a, b) == U32(WideAdd(a, b).hi % Half, WideAdd(a, b).lo)

(***************************************************************************)
(* Game                                                                    *)
(***************************************************************************)

\* The calls made on one Game, or on one Cache
MaxCalls == 5

Menu == [tag |-> "Menu"]
Playing(score, level) == [tag |-> "Playing", score |-> score, level |-> level]
Paused == [tag |-> "Paused"]
GameOver(final_score) == [tag |-> "GameOver", final_score |-> final_score]

\* The player's name in game_example
T_player == <<"u30D7", "u30EC", "u30A4", "u30E4", "u30FC", "1">>

Game_new(name) == [state |-> Menu, player_name |-> name]

\* The points of update_score: those of game_example, and u32::MAX
GamePoints == {U32Of(100), U32Of(50), U32Max}

\* Init: after Game::new, in a build with or without overflow checks
InitGame ==
    /\ fs = [p \in Paths |-> Missing]
    /\ fs0 = fs
    /\ th = <<>>
    /\ unlinked = <<>>
    /\ InitLocals
    /\ InitNoCall
    /\ InitNoBasics
    /\ InitNoRun
    /\ overflow_checks \in BOOLEAN
    /\ game = Game_new(T_player)
    /\ game_log = <<>>
    /\ game_panic = FALSE
    /\ InitNoCache

\* One call on the game is recorded with the state before and after it
GameCall(op, points, after) ==
    [op |-> op, points |-> points, before |-> game.state, after |-> after]

\* The game takes calls until the bound or a panic
GameRuns == ~game_panic /\ Len(game_log) < MaxCalls

\* Game::start
Game_start ==
    /\ GameRuns
    /\ game' = [game EXCEPT !.state = Playing(U32Of(0), 1)]
    /\ out' = Append(out, [line |-> "game start", arg |-> <<>>])
    /\ game_log' = Append(game_log, GameCall("start", U32Of(0), game'.state))
    /\ UNCHANGED <<fs, game_panic, chainVars, loaderVars, exampleVars, callVars, threadVars,
                   basicsVars, runVars, buildVars, cacheVars>>

\* Mutant: pause without its if let, pausing in every state
Game_pause_in_every_state ==
    /\ GameRuns
    /\ game' = [game EXCEPT !.state = Paused]
    /\ out' = Append(out, [line |-> "game paused", arg |-> <<>>])
    /\ game_log' = Append(game_log, GameCall("pause", U32Of(0), game'.state))
    /\ UNCHANGED <<fs, game_panic, chainVars, loaderVars, exampleVars, callVars, threadVars,
                   basicsVars, runVars, buildVars, cacheVars>>

\* Game::pause
Game_pause ==
    /\ GameRuns
    /\ IF game.state.tag = "Playing"
       THEN /\ game' = [game EXCEPT !.state = Paused]
            /\ out' = Append(out, [line |-> "game paused", arg |-> <<>>])
       ELSE UNCHANGED <<game, out>>
    /\ game_log' = Append(game_log, GameCall("pause", U32Of(0), game'.state))
    /\ UNCHANGED <<fs, game_panic, chainVars, loaderVars, exampleVars, callVars, threadVars,
                   basicsVars, runVars, buildVars, cacheVars>>

\* Game::update_score: *score += points panics on overflow in a build with
\* overflow checks and wraps in a build without
Game_update_score ==
    /\ GameRuns
    /\ \E points \in GamePoints :
          /\ IF game.state.tag /= "Playing"
             THEN UNCHANGED <<game, out, game_panic>>
             ELSE IF overflow_checks /\ u32_add_overflows(game.state.score, points)
             THEN /\ game_panic' = TRUE
                  /\ UNCHANGED <<game, out>>
             ELSE /\ game' = [game EXCEPT !.state.score = u32_wrapping_add(@, points)]
                  /\ out' = Append(out, [line |-> "score", arg |-> game'.state.score])
                  /\ UNCHANGED game_panic
          /\ game_log' = Append(game_log, GameCall("update_score", points, game'.state))
    /\ UNCHANGED <<fs, chainVars, loaderVars, exampleVars, callVars, threadVars,
                   basicsVars, runVars, buildVars, cacheVars>>

\* Game::game_over
Game_game_over ==
    /\ GameRuns
    /\ IF game.state.tag = "Playing"
       THEN /\ game' = [game EXCEPT !.state = GameOver(game.state.score)]
            /\ out' = Append(out, [line |-> "game over", arg |-> game.state.score])
       ELSE UNCHANGED <<game, out>>
    /\ game_log' = Append(game_log, GameCall("game_over", U32Of(0), game'.state))
    /\ UNCHANGED <<fs, game_panic, chainVars, loaderVars, exampleVars, callVars, threadVars,
                   basicsVars, runVars, buildVars, cacheVars>>

NextGame ==
    \/ Game_start
    \/ Game_pause
    \/ Game_update_score
    \/ Game_game_over

SpecGame == InitGame /\ [][NextGame]_vars

\* The points added in the first i calls since the last start among them
RECURSIVE PointsSinceStart(_)
PointsSinceStart(i) ==
    IF i = 0 \/ game_log[i].op = "start" THEN U32Of(0)
    ELSE IF game_log[i].op = "update_score" /\ game_log[i].before.tag = "Playing"
    THEN WideAdd(PointsSinceStart(i - 1), game_log[i].points)
    ELSE PointsSinceStart(i - 1)

\* The calls of game_example
GameExampleCalls ==
    <<[op |-> "start", points |-> U32Of(0)],
      [op |-> "update_score", points |-> U32Of(100)],
      [op |-> "update_score", points |-> U32Of(50)],
      [op |-> "pause", points |-> U32Of(0)],
      [op |-> "game_over", points |-> U32Of(0)]>>

\* The calls so far are those of game_example
IsGameExample ==
    [i \in 1..Len(game_log) |-> [op |-> game_log[i].op, points |-> game_log[i].points]]
        = GameExampleCalls

\* The call i left a state other than Playing as it was
FrameHolds(i) ==
    (game_log[i].op /= "start" /\ game_log[i].before.tag /= "Playing") =>
        game_log[i].after = game_log[i].before

\* The call i entered GameOver
EntersGameOver(i) ==
    game_log[i].after.tag = "GameOver" /\ game_log[i].before.tag /= "GameOver"

\* A sum as the u32 it wraps to
Mod32(w) == U32(w.hi % Half, w.lo)

\* C29 as stated: pause, update_score and game_over leave every state but
\* Playing as it is; GameOver is entered from Playing only, with
\* final_score the sum of the points added since the last start; and the
\* calls of game_example end in Paused
C29_OnlyPlayingChanges ==
    /\ \A i \in 1..Len(game_log) :
          /\ FrameHolds(i)
          /\ EntersGameOver(i) =>
                /\ game_log[i].before.tag = "Playing"
                /\ game_log[i].after.final_score = PointsSinceStart(i - 1)
    /\ IsGameExample => game.state = Paused

\* C29 amended: the same, with final_score the sum of the points added
\* since the last start modulo 2^32, which is the sum itself as long as it
\* is a u32; a build with overflow checks panics in update_score where the
\* sum leaves the u32 range, so that GameOver follows with a sum in range
\* only
C29_OnlyPlayingChangesScoreWraps ==
    /\ \A i \in 1..Len(game_log) :
          /\ FrameHolds(i)
          /\ EntersGameOver(i) =>
                /\ game_log[i].before.tag = "Playing"
                /\ game_log[i].after.final_score = Mod32(PointsSinceStart(i - 1))
                /\ overflow_checks => PointsSinceStart(i - 1).hi < Half
    /\ IsGameExample => game.state = Paused

\* The calls of game_example with game_over before pause: the score is 150
C29_Witness ==
    /\ Len(game_log) = 4
    /\ game_log[1].op = "start"
    /\ game_log[2].op = "update_score" /\ game_log[2].points = U32Of(100)
    /\ game_log[3].op = "update_score" /\ game_log[3].points = U32Of(50)
    /\ game_log[4].op = "game_over"
    /\ game.state = GameOver(U32Of(150))

\* game_example has run to its end in Paused
C29_WitnessExample == IsGameExample /\ game.state = Paused

\* A score that wrapped: u32::MAX and 100 are 99
C29_WitnessWrapped ==
    /\ ~overflow_checks
    /\ PointsSinceStart(Len(game_log)).hi >= Half
    /\ game.state = GameOver(U32Of(99))

\* pause, update_score and game_over were called in Paused and changed
\* nothing
C29_WitnessFrame ==
    /\ Len(game_log) = 5
    /\ game_log[2].op = "pause" /\ game_log[2].after = Paused
    /\ game_log[3].op = "pause" /\ game_log[4].op = "update_score"
    /\ game_log[5].op = "game_over"
    /\ game.state = Paused

(***************************************************************************)
(* Cache                                                                   *)
(***************************************************************************)

\* HashMap<U, U>: a set of entries, one for a key at most
HashMap_get(values, k) ==
    IF \E e \in values : e.key = k
    THEN [tag |-> "Some", val |-> (CHOOSE e \in values : e.key = k).val]
    ELSE [tag |-> "None"]

\* HashMap::insert: the entry of the key is put or replaced
HashMap_insert(values, k, v) ==
    {e \in values : e.key /= k} \cup {[key |-> k, val |-> v]}

\* The closure of cache_example: num * 2 on u32, which panics on overflow
\* in a build with overflow checks and wraps in a build without
calculation(num) ==
    IF overflow_checks /\ u32_add_overflows(num, num) THEN Panic
    ELSE [tag |-> "Value", val |-> u32_wrapping_add(num, num)]

\* Mutant: the computed value is returned and not stored
Cache_value_forgets(values, arg) ==
    IF HashMap_get(values, arg).tag = "Some"
    THEN [ret |-> [tag |-> "Value", val |-> HashMap_get(values, arg).val],
          values |-> values, invoked |-> FALSE]
    ELSE [ret |-> calculation(arg), values |-> values, invoked |-> TRUE]

\* Cache::value: what is returned, the map after the call, and whether the
\* closure was called
Cache_value(values, arg) ==
    IF HashMap_get(values, arg).tag = "Some"
    THEN [ret |-> [tag |-> "Value", val |-> HashMap_get(values, arg).val],
          values |-> values, invoked |-> FALSE]
    ELSE IF calculation(arg) = Panic
    THEN [ret |-> Panic, values |-> values, invoked |-> TRUE]
    ELSE [ret |-> calculation(arg),
          values |-> HashMap_insert(values, arg, calculation(arg).val),
          invoked |-> TRUE]

\* The arguments of value: those of cache_example, and 2^31, whose double
\* leaves the u32 range
CacheArgs == {U32Of(5), U32Of(10), U32(Half \div 2, 0)}

\* Init: after Cache::new, in a build with or without overflow checks
InitCache ==
    /\ fs = [p \in Paths |-> Missing]
    /\ fs0 = fs
    /\ th = <<>>
    /\ unlinked = <<>>
    /\ InitLocals
    /\ InitNoCall
    /\ InitNoBasics
    /\ InitNoRun
    /\ overflow_checks \in BOOLEAN
    /\ InitNoGame
    /\ cache_values = {}
    /\ cache_log = <<>>
    /\ cache_panic = FALSE

\* expensive_cache.value(arg): the closure prints when it is called
call_Cache_value ==
    /\ ~cache_panic
    /\ Len(cache_log) < MaxCalls
    /\ \E arg \in CacheArgs :
          LET r == Cache_value(cache_values, arg)
          IN  /\ cache_values' = r.values
              /\ cache_panic' = (r.ret = Panic)
              /\ out' = IF r.invoked
                        THEN Append(out, [line |-> "calculating", arg |-> arg])
                        ELSE out
              /\ cache_log' = Append(cache_log,
                                [arg |-> arg, ret |-> r.ret, invoked |-> r.invoked,
                                 before |-> cache_values, after |-> r.values])
    /\ UNCHANGED <<fs, chainVars, loaderVars, exampleVars, callVars, threadVars,
                   basicsVars, runVars, buildVars, gameVars>>

NextCache == call_Cache_value

SpecCache == InitCache /\ [][NextCache]_vars

\* C30: the closure is called on the first call with an argument and on no
\* later one, every call that returns gives calculation(arg), and no call
\* takes away or changes an entry of the map
C30_ValueMemoizes ==
    \A i \in 1..Len(cache_log) :
        /\ cache_log[i].invoked <=>
              ~\E j \in 1..(i - 1) : cache_log[j].arg = cache_log[i].arg
        /\ cache_log[i].ret /= Panic => cache_log[i].ret = calculation(cache_log[i].arg)
        /\ cache_log[i].before \subseteq cache_log[i].after

\* The calls of cache_example: value(5), value(5), value(10)
C30_Witness ==
    /\ Len(cache_log) = 3
    /\ cache_log[1].arg = U32Of(5) /\ cache_log[1].invoked
    /\ cache_log[2].arg = U32Of(5) /\ ~cache_log[2].invoked
    /\ cache_log[2].ret = [tag |-> "Value", val |-> U32Of(10)]
    /\ cache_log[3].arg = U32Of(10) /\ cache_log[3].invoked
    /\ cache_log[3].ret = [tag |-> "Value", val |-> U32Of(20)]
    /\ cache_values = {[key |-> U32Of(5), val |-> U32Of(10)],
                       [key |-> U32Of(10), val |-> U32Of(20)]}

\* A doubling that wrapped is stored and given again from the map
C30_WitnessWrapped ==
    /\ Len(cache_log) >= 2
    /\ cache_log[1].arg = U32(Half \div 2, 0)
    /\ cache_log[2].arg = U32(Half \div 2, 0)
    /\ ~cache_log[2].invoked
    /\ cache_log[2].ret = [tag |-> "Value", val |-> U32Of(0)]

====
